---- MODULE Spec2Model ----
(***************************************************************************)
(* Model of llm-sentinel: the alert deduplicator                           *)
(* (crates/sentinel-alerting/src/deduplication.rs), the statistics         *)
(* primitives and rolling window (crates/sentinel-detection/src/stats.rs), *)
(* the baseline store (baseline.rs), the four detectors (detectors/) and   *)
(* the detection engine (engine.rs).                                       *)
(*                                                                         *)
(* Time.  Utc::now() has sub-second resolution, while                      *)
(* DeduplicationEntry::is_expired compares whole seconds                   *)
(* (Duration::num_seconds truncates).  The clock `now` therefore counts    *)
(* ticks of 1/TicksPerSec second.  One should_send or cleanup_expired     *)
(* call reads the clock several times within microseconds; the model       *)
(* gives the call one reading.  The clock never steps back.  Counts stay   *)
(* far below the u64 range.                                                *)
(***************************************************************************)
EXTENDS Integers, Sequences, FiniteSets, TLC

VARIABLES
    enabled,    \* DeduplicationConfig.enabled
    now,        \* the wall clock, in ticks
    entries,    \* AlertDeduplicator.entries: DeduplicationKey -> DeduplicationEntry
    twin,       \* entries of a second deduplicator that receives the same calls, never cleaned
    log,        \* history: one record per completed should_send call
    lastOp,     \* history: the operation that ran last
    issued,     \* number of should_send calls begun (the alert id of the latest event)
    callers,    \* concurrent callers of should_send: position, event, log length at entry
    capacity,   \* RollingWindow.capacity
    data,       \* RollingWindow.data
    pushed,     \* history: the values pushed since the window was new or cleared
    config,     \* EngineConfig handed to DetectionEngine::new
    built,      \* what DetectionEngine::new returned: "Ok", "Err", or "none" before it ran
    detectors,  \* DetectionEngine.detectors: the detector names, in consultation order
    windows,    \* BaselineManager.windows: BaselineKey -> RollingWindow data
    baselines,  \* BaselineManager.baselines: BaselineKey -> Baseline
    states,     \* CusumDetector.states: BaselineKey -> CusumState
    stats,      \* DetectionEngine.stats: EngineStats
    calls,      \* history: one record per completed engine call
    panicked,   \* the set of callers whose call panicked
    threads,    \* concurrent callers of the baseline store: position and locals
    previous,   \* history: the engine calls made before the last reset, if there was one;
                \* in the pipeline driver, the traces of the events that raised an anomaly
    trace,      \* history: the collaborator calls the pipeline driver made for its latest event
    detector_stats, \* the stats field of each detector: detector name -> DetectorStats
    driver,     \* the task running start_ingestion_pipeline: position and locals
    retry,      \* an alert sender's retry loop: configuration, position, locals and history
    ingester,   \* KafkaIngester: the running flag, and the latest call with what it returned
    ingestion   \* IngestionPipeline: its sender, the producers' clones, the workers, the stop call

vars ==
    <<enabled, now, entries, twin, log, lastOp, issued, callers, capacity, data, pushed,
      config, built, detectors, windows, baselines, states, stats, calls, panicked, threads,
      previous, trace, detector_stats, driver, retry, ingester, ingestion>>

dedupVars == <<enabled, now, entries, twin, log, lastOp, issued>>
windowVars == <<capacity, data, pushed>>
storeVars == <<windows, baselines>>
engineVars == <<config, built, detectors, storeVars, states, stats, calls, panicked, threads>>
driverVars == <<previous, trace>>
serviceVars == <<driver, retry, ingester, ingestion>>

\* DetectorStats::empty for each detector of ds
NewDetectorStats(ds) ==
    [d \in {ds[i] : i \in DOMAIN ds} |-> [events_processed |-> 0, anomalies_detected |-> 0]]

\* the components that are not in play
ServicesIdle ==
    /\ driver = <<>>
    /\ retry = <<>>
    /\ ingester = <<>>
    /\ ingestion = <<>>

---------------------------------------------------------------------------
(* Bounds and configuration *)

\* clock ticks per second (resolution of the modelled clock)
TicksPerSec == 2
\* the clock stops advancing at MaxTime ticks
MaxTime == 5
\* number of should_send calls per behaviour
MaxCalls == 3
\* DeduplicationConfig.window_secs, as configured in test_cleanup_expired
WindowSecs == 1
\* largest RollingWindow capacity
MaxCap == 4
\* number of pushes between two clears of a RollingWindow
MaxPushes == 6
\* number of events handed to a detection engine
MaxEvents == 6

\* the concurrent callers of the baseline store
StoreThreads == {1, 2}

Min(a, b) == IF a <= b THEN a ELSE b

\* the window W in ticks
WindowTicks == WindowSecs * TicksPerSec

Callers == {1, 2}

\* the values pushed into a RollingWindow
Values == {0, 1, 2}

---------------------------------------------------------------------------
(* Events and signatures *)

BaseSig ==
    [service_name |-> "svc-A", model |-> "gpt-4",
     anomaly_type |-> "LatencySpike", severity |-> "High"]

\* the signatures of the anomalies fed to the deduplicator: a base signature
\* and one that differs from it in each single field
EventSigs ==
    { BaseSig,
      [BaseSig EXCEPT !.service_name = "svc-B"],
      [BaseSig EXCEPT !.model = "gpt-3.5"],
      [BaseSig EXCEPT !.anomaly_type = "CostAnomaly"],
      [BaseSig EXCEPT !.severity = "Critical"] }

\* the signatures the concurrent callers raise
ConcSigs == {BaseSig, [BaseSig EXCEPT !.severity = "Critical"]}

\* AnomalyEvent, reduced to the fields the deduplicator reads
AnomalyEvent(sig, id) ==
    [alert_id |-> id, service_name |-> sig.service_name, model |-> sig.model,
     anomaly_type |-> sig.anomaly_type, severity |-> sig.severity]

\* the signature an event carries
SigOf(event) ==
    [service_name |-> event.service_name, model |-> event.model,
     anomaly_type |-> event.anomaly_type, severity |-> event.severity]

from_event_no_severity(event) ==
    [service |-> event.service_name, model |-> event.model,
     anomaly_type |-> event.anomaly_type, severity |-> "High"]

\* DeduplicationKey::from_event
from_event(event) ==
    [service |-> event.service_name, model |-> event.model,
     anomaly_type |-> event.anomaly_type, severity |-> event.severity]

---------------------------------------------------------------------------
(* DeduplicationEntry *)

\* stands for "no entry" where a record is needed
NoEntry == [last_seen |-> 0 - 1, count |-> 0, alert_ids |-> <<>>]

\* DeduplicationEntry::new at clock t
NewEntry(alert_id, t) ==
    [last_seen |-> t, count |-> 1, alert_ids |-> <<alert_id>>]

increment_keeps_last_seen(entry, alert_id, t) ==
    [last_seen |-> entry.last_seen, count |-> entry.count + 1,
     alert_ids |-> Append(entry.alert_ids, alert_id)]

increment_no_count(entry, alert_id, t) ==
    [last_seen |-> t, count |-> entry.count,
     alert_ids |-> Append(entry.alert_ids, alert_id)]

\* DeduplicationEntry::increment at clock t
increment(entry, alert_id, t) ==
    [last_seen |-> t, count |-> entry.count + 1,
     alert_ids |-> Append(entry.alert_ids, alert_id)]

\* chrono Duration::num_seconds: whole seconds, truncated toward zero
num_seconds(ticks) ==
    IF ticks >= 0 THEN ticks \div TicksPerSec ELSE 0 - ((0 - ticks) \div TicksPerSec)

\* DeduplicationEntry::is_expired at clock t
is_expired(entry, window, t) ==
    num_seconds(t - entry.last_seen) > window

---------------------------------------------------------------------------
(* AlertDeduplicator *)

\* DashMap::insert
Insert(map, key, entry) ==
    [k \in (DOMAIN map) \cup {key} |-> IF k = key THEN entry ELSE map[k]]

\* should_send, the branch taken when get_mut finds the entry (the shard
\* lock is held from the lookup to the end of the branch)
should_send_found(map, key, alert_id, t) ==
    IF is_expired(map[key], WindowSecs, t)
    THEN [ret |-> TRUE, entries |-> [map EXCEPT ![key] = NewEntry(alert_id, t)]]
    ELSE [ret |-> FALSE,
          entries |-> [map EXCEPT ![key] = increment(map[key], alert_id, t)]]

\* should_send, the branch taken when get_mut found nothing: DashMap::insert
\* of a new entry (replacing whatever the map holds for the key by then)
should_send_absent(map, key, alert_id, t) ==
    [ret |-> TRUE, entries |-> Insert(map, key, NewEntry(alert_id, t))]

should_send_ignores_enabled(en, map, event, t) ==
    LET key == from_event(event)
    IN  IF key \in DOMAIN map
        THEN should_send_found(map, key, event.alert_id, t)
        ELSE should_send_absent(map, key, event.alert_id, t)

\* AlertDeduplicator::should_send run without interruption at clock t:
\* the value returned and the map it leaves
should_send(en, map, event, t) ==
    IF ~en
    THEN [ret |-> TRUE, entries |-> map]
    ELSE LET key == from_event(event)
         IN  IF key \in DOMAIN map
             THEN should_send_found(map, key, event.alert_id, t)
             ELSE should_send_absent(map, key, event.alert_id, t)

\* u64::saturating_sub
saturating_sub(a, b) == IF a >= b THEN a - b ELSE 0

RECURSIVE SumSuppressed(_, _)
SumSuppressed(map, keys) ==
    IF keys = {} THEN 0
    ELSE LET k == CHOOSE x \in keys : TRUE
         IN  saturating_sub(map[k].count, 1) + SumSuppressed(map, keys \ {k})

RECURSIVE SumCounts(_, _)
SumCounts(map, keys) ==
    IF keys = {} THEN 0
    ELSE LET k == CHOOSE x \in keys : TRUE
         IN  map[k].count + SumCounts(map, keys \ {k})

get_stats_counts_all(map) ==
    [total_signatures |-> Cardinality(DOMAIN map),
     total_deduplicated |-> SumCounts(map, DOMAIN map),
     by_severity |->
        [s \in {k.severity : k \in DOMAIN map} |->
            SumCounts(map, {k \in DOMAIN map : k.severity = s})]]

\* AlertDeduplicator::get_stats
get_stats(map) ==
    [total_signatures |-> Cardinality(DOMAIN map),
     total_deduplicated |-> SumSuppressed(map, DOMAIN map),
     by_severity |->
        [s \in {k.severity : k \in DOMAIN map} |->
            SumSuppressed(map, {k \in DOMAIN map : k.severity = s})]]

\* AlertDeduplicator::entry_count
entry_count(map) == Cardinality(DOMAIN map)

cleanup_expired_inverted(map, t) ==
    [k \in {x \in DOMAIN map : is_expired(map[x], WindowSecs, t)} |-> map[k]]

\* AlertDeduplicator::cleanup_expired at clock t: retain the entries not expired
cleanup_expired(map, t) ==
    [k \in {x \in DOMAIN map : ~is_expired(map[x], WindowSecs, t)} |-> map[k]]

\* the empty DashMap
EmptyMap == [k \in {} |-> NoEntry]

---------------------------------------------------------------------------
(* RollingWindow *)

push_off_by_one(d, cap, value) ==
    IF Len(d) > cap THEN Append(Tail(d), value) ELSE Append(d, value)

\* (mutant) a push on a full window drops the newest element, not the oldest
push_drops_newest(d, cap, value) ==
    IF Len(d) >= cap THEN Append(SubSeq(d, 1, Len(d) - 1), value) ELSE Append(d, value)

\* RollingWindow::push
push(d, cap, value) ==
    IF Len(d) >= cap THEN Append(Tail(d), value) ELSE Append(d, value)

\* RollingWindow::len
len(d) == Len(d)

\* (mutant) every window counts as full
is_full_always(d, cap) == TRUE

\* RollingWindow::is_full
is_full(d, cap) == Len(d) >= cap

---------------------------------------------------------------------------
(* History *)

\* the key under which the deduplicator is to file signature sig
KeyOf(sig) ==
    [service |-> sig.service_name, model |-> sig.model,
     anomaly_type |-> sig.anomaly_type, severity |-> sig.severity]

\* the entry the map holds for signature sig, NoEntry when it holds none
EntryOf(map, sig) ==
    IF KeyOf(sig) \in DOMAIN map THEN map[KeyOf(sig)] ELSE NoEntry

\* the record of one completed should_send call
CallRecord(sig, id, t, ret, twinRet, before, began) ==
    [sig |-> sig, alert_id |-> id, time |-> t, ret |-> ret, twin_ret |-> twinRet,
     before |-> before, began |-> began]

IdleCallers == [p \in Callers |-> [pc |-> "idle", event |-> AnomalyEvent(BaseSig, 0), began |-> 0]]

---------------------------------------------------------------------------
(* Exact arithmetic.  The code computes in f64; the model computes with the  *)
(* rationals the floats stand for, so rounding is not modelled.  A standard  *)
(* deviation is held as its square, and a z-score is compared with a         *)
(* threshold through the squares.                                            *)

Abs(x) == IF x < 0 THEN 0 - x ELSE x

RECURSIVE GCD(_, _)
GCD(a, b) == IF b = 0 THEN a ELSE GCD(b, a % b)

\* the rational n / d (d > 0) in lowest terms
Rat(n, d) ==
    LET g == GCD(Abs(n), d)
    IN  [num |-> n \div g, den |-> d \div g]

FromInt(x) == [num |-> x, den |-> 1]
Zero == FromInt(0)

RAdd(a, b) == Rat(a.num * b.den + b.num * a.den, a.den * b.den)
RSub(a, b) == Rat(a.num * b.den - b.num * a.den, a.den * b.den)
RMul(a, b) == Rat(a.num * b.num, a.den * b.den)
RLt(a, b) == a.num * b.den < b.num * a.den
RLe(a, b) == a.num * b.den <= b.num * a.den
RAbs(a) == [num |-> Abs(a.num), den |-> a.den]
RMax(a, b) == IF RLt(a, b) THEN b ELSE a
RMin(a, b) == IF RLt(b, a) THEN b ELSE a

---------------------------------------------------------------------------
(* Statistics primitives (stats.rs).  The data are whole numbers (latency in *)
(* ms, tokens, cost in USD); the statistics are rationals.                   *)

RECURSIVE Sum(_)
Sum(d) == IF d = <<>> THEN 0 ELSE Head(d) + Sum(Tail(d))

RECURSIVE SumSq(_)
SumSq(d) == IF d = <<>> THEN 0 ELSE Head(d) * Head(d) + SumSq(Tail(d))

\* stats::mean
mean(d) == IF d = <<>> THEN Zero ELSE Rat(Sum(d), Len(d))

\* stats::std_dev, squared: statrs' Data::std_dev is the sample standard
\* deviation, sum((x - mean)^2) / (n - 1) = (n sum(x^2) - sum(x)^2) / (n (n - 1))
std_dev_sq(d) ==
    IF Len(d) < 2 THEN Zero
    ELSE Rat(Len(d) * SumSq(d) - Sum(d) * Sum(d), Len(d) * (Len(d) - 1))

\* a.partial_cmp(b) is Less
Less(a, b) == a < b

\* sort_by(partial_cmp): d in ascending order
sort(d) == SortSeq(d, Less)

\* twice stats::median, a whole number
median_x2(d) ==
    LET sorted == sort(d)
        mid == Len(sorted) \div 2
    IN  IF Len(sorted) % 2 = 0 THEN sorted[mid] + sorted[mid + 1] ELSE 2 * sorted[mid + 1]

\* stats::median
median(d) == IF d = <<>> THEN Zero ELSE Rat(median_x2(d), 2)

\* stats::mad: the median of the absolute deviations |x - median|, computed
\* on the doubled deviations |2x - 2 median|
mad(d) ==
    IF d = <<>> THEN Zero
    ELSE LET med2 == median_x2(d)
         IN  Rat(median_x2([i \in DOMAIN d |-> Abs(2 * d[i] - med2)]), 4)

\* statrs' Data::quantile(tau) on sorted data, tau = tauNum / tauDen:
\* h = (n + 1/3) tau + 1/3, interpolating between the order statistics
\* around h
quantile(sorted, tauNum, tauDen) ==
    LET n == Len(sorted)
        hnum == (3 * n + 1) * tauNum + tauDen
        hden == 3 * tauDen
        hf == hnum \div hden
    IN  IF hf <= 0 \/ tauNum = 0 THEN FromInt(sorted[1])
        ELSE IF hf >= n \/ tauNum = tauDen THEN FromInt(sorted[n])
        ELSE Rat(sorted[hf] * hden + (hnum - hf * hden) * (sorted[hf + 1] - sorted[hf]), hden)

\* stats::iqr: (q1, q3, q3 - q1)
iqr(d) ==
    IF d = <<>> THEN [q1 |-> Zero, q3 |-> Zero, iqr |-> Zero]
    ELSE LET sorted == sort(d)
             q1 == quantile(sorted, 1, 4)
             q3 == quantile(sorted, 3, 4)
         IN  [q1 |-> q1, q3 |-> q3, iqr |-> RSub(q3, q1)]

\* stats::percentile, p a whole number of percent
percentile(d, p) == IF d = <<>> THEN Zero ELSE quantile(sort(d), p, 100)

\* stats::zscore compared with a threshold t without taking the root:
\* |zscore(value, mean, std_dev)| > t, and >= t
zscore_exceeds(value, m, sd_sq, t) ==
    /\ sd_sq # Zero
    /\ RLt(RMul(RMul(t, t), sd_sq), RMul(RSub(FromInt(value), m), RSub(FromInt(value), m)))

zscore_reaches(value, m, sd_sq, t) ==
    IF sd_sq = Zero THEN RLe(t, Zero)
    ELSE RLe(RMul(RMul(t, t), sd_sq), RMul(RSub(FromInt(value), m), RSub(FromInt(value), m)))

\* stats::is_zscore_outlier
is_zscore_outlier(value, m, sd_sq, threshold) == zscore_exceeds(value, m, sd_sq, threshold)

\* stats::is_iqr_outlier
is_iqr_outlier(value, q1, q3, iqrv, multiplier) ==
    LET lower_bound == RSub(q1, RMul(multiplier, iqrv))
        upper_bound == RAdd(q3, RMul(multiplier, iqrv))
    IN  RLt(FromInt(value), lower_bound) \/ RLt(upper_bound, FromInt(value))

\* stats::is_mad_outlier: 0.6745 |value - median| / mad > threshold
is_mad_outlier(value, med, madv, threshold) ==
    /\ madv # Zero
    /\ RLt(RMul(threshold, madv), RMul(Rat(6745, 10000), RAbs(RSub(FromInt(value), med))))

---------------------------------------------------------------------------
(* Baselines and the baseline store (baseline.rs).  An Option is a sequence  *)
(* of length 0 or 1.                                                         *)

None == <<>>
Some(x) == <<x>>

\* the least and the greatest element of non-empty data
min_of(d) == FromInt(sort(d)[1])
max_of(d) == FromInt(sort(d)[Len(d)])

\* Baseline::empty
empty_baseline ==
    [mean |-> Zero, std_dev_sq |-> Zero, median |-> Zero, mad |-> Zero,
     q1 |-> Zero, q3 |-> Zero, iqr |-> Zero, p95 |-> Zero, p99 |-> Zero,
     min |-> Zero, max |-> Zero, sample_count |-> 0]

\* Baseline::from_data
from_data(d) ==
    IF d = <<>> THEN empty_baseline
    ELSE LET q == iqr(d)
         IN  [mean |-> mean(d), std_dev_sq |-> std_dev_sq(d), median |-> median(d),
              mad |-> mad(d), q1 |-> q.q1, q3 |-> q.q3, iqr |-> q.iqr,
              p95 |-> percentile(d, 95), p99 |-> percentile(d, 99),
              min |-> min_of(d), max |-> max_of(d), sample_count |-> Len(d)]

\* Baseline::is_valid
is_valid(baseline) == baseline.sample_count >= 10

\* BaselineKey::latency, ::tokens, ::cost
latency(service, model) == [service |-> service, model |-> model, metric |-> "latency_ms"]
tokens(service, model) == [service |-> service, model |-> model, metric |-> "total_tokens"]
cost(service, model) == [service |-> service, model |-> model, metric |-> "cost_usd"]

\* DashMap::remove
Remove(map, key) == [k \in DOMAIN map \ {key} |-> map[k]]

\* the window the store holds for key, a fresh one when it holds none
\* (entry(key).or_insert_with(RollingWindow::new))
WindowOf(ws, key) == IF key \in DOMAIN ws THEN ws[key] ELSE <<>>

\* RollingWindow::push panics when it removes index 0 of an empty Vec, which
\* is what happens in a window of capacity 0
push_panics(d, cap) == Len(d) >= cap /\ d = <<>>

\* (mutant) the snapshot is recomputed from the window as it was before the push
update_stale_snapshot(ws, bs, window_size, key, value) ==
    LET window == WindowOf(ws, key)
    IN  IF push_panics(window, window_size)
        THEN [panic |-> TRUE, windows |-> Insert(ws, key, window), baselines |-> bs]
        ELSE LET pushedw == push(window, window_size, value)
             IN  [panic |-> FALSE, windows |-> Insert(ws, key, pushedw),
                  baselines |-> IF is_full(pushedw, window_size)
                                THEN Insert(bs, key, from_data(window)) ELSE bs]

\* BaselineManager::update by one caller
update(ws, bs, window_size, key, value) ==
    LET window == WindowOf(ws, key)
    IN  IF push_panics(window, window_size)
        THEN [panic |-> TRUE, windows |-> Insert(ws, key, window), baselines |-> bs]
        ELSE LET pushedw == push(window, window_size, value)
             IN  [panic |-> FALSE, windows |-> Insert(ws, key, pushedw),
                  baselines |-> IF is_full(pushedw, window_size)
                                THEN Insert(bs, key, from_data(pushedw)) ELSE bs]

\* BaselineManager::get
get(bs, key) == IF key \in DOMAIN bs THEN Some(bs[key]) ELSE None

\* (mutant) any snapshot counts as valid
has_valid_baseline_any_snapshot(bs, key) == key \in DOMAIN bs

\* BaselineManager::has_valid_baseline
has_valid_baseline(bs, key) == key \in DOMAIN bs /\ is_valid(bs[key])

\* BaselineManager::clear
clear(ws, bs, key) == [windows |-> Remove(ws, key), baselines |-> Remove(bs, key)]

---------------------------------------------------------------------------
(* The detectors (detectors/*.rs).  An anomaly keeps the fields the engine   *)
(* and the alerting side read; its confidence score is not modelled.         *)

\* DetectionConfig::default
DefaultDetectionConfig == [min_samples |-> 10, update_baseline |-> TRUE]

\* ZScoreConfig::default, IqrConfig::default, MadConfig::default, CusumConfig::default
DefaultZScoreConfig == [threshold |-> FromInt(3), detection |-> DefaultDetectionConfig]
DefaultIqrConfig == [multiplier |-> Rat(3, 2), detection |-> DefaultDetectionConfig]
DefaultMadConfig == [threshold |-> Rat(7, 2), detection |-> DefaultDetectionConfig]
DefaultCusumConfig ==
    [threshold |-> FromInt(5), slack |-> Rat(1, 2), detection |-> DefaultDetectionConfig]

\* EngineConfig::default
DefaultEngineConfig ==
    [enable_zscore |-> TRUE, zscore_config |-> DefaultZScoreConfig,
     enable_iqr |-> TRUE, iqr_config |-> DefaultIqrConfig,
     enable_mad |-> FALSE, mad_config |-> DefaultMadConfig,
     enable_cusum |-> TRUE, cusum_config |-> DefaultCusumConfig,
     baseline_window_size |-> 1000, continuous_learning |-> TRUE]

\* AnomalyEvent::new as the detectors call it
Anomaly(severity, anomaly_type, event, method, metric, value, baseline) ==
    [severity |-> severity, anomaly_type |-> anomaly_type,
     service_name |-> event.service_name, model |-> event.model,
     detection_method |-> method, metric |-> metric, value |-> value,
     sample_count |-> baseline.sample_count]

\* (mutant) the High and Medium rungs are swapped
calculate_severity_swapped(z_score) ==
    IF RLe(FromInt(6), z_score) THEN "Critical"
    ELSE IF RLe(FromInt(4), z_score) THEN "Medium"
    ELSE IF RLe(FromInt(3), z_score) THEN "High"
    ELSE "Low"

\* ZScoreDetector::calculate_severity(z_score), z_score a rational
calculate_severity(z_score) ==
    IF RLe(FromInt(6), z_score) THEN "Critical"
    ELSE IF RLe(FromInt(4), z_score) THEN "High"
    ELSE IF RLe(FromInt(3), z_score) THEN "Medium"
    ELSE "Low"

\* ZScoreDetector::calculate_severity, for the z-score of value against
\* baseline, decided on the squares
zscore_calculate_severity(value, baseline) ==
    IF zscore_reaches(value, baseline.mean, baseline.std_dev_sq, FromInt(6)) THEN "Critical"
    ELSE IF zscore_reaches(value, baseline.mean, baseline.std_dev_sq, FromInt(4)) THEN "High"
    ELSE IF zscore_reaches(value, baseline.mean, baseline.std_dev_sq, FromInt(3)) THEN "Medium"
    ELSE "Low"

\* the body shared by ZScoreDetector::detect_latency, detect_tokens and detect_cost
zscore_detect_metric(cfg, bs, event, key, value, anomaly_type) ==
    IF ~has_valid_baseline(bs, key) THEN None
    ELSE LET baseline == get(bs, key)[1]
         IN  IF zscore_exceeds(value, baseline.mean, baseline.std_dev_sq, cfg.threshold)
             THEN Some(Anomaly(zscore_calculate_severity(value, baseline), anomaly_type,
                               event, "ZScore", key.metric, value, baseline))
             ELSE None

zscore_detect_latency(cfg, bs, event) ==
    zscore_detect_metric(cfg, bs, event, latency(event.service_name, event.model),
                         event.latency_ms, "LatencySpike")

zscore_detect_tokens(cfg, bs, event) ==
    zscore_detect_metric(cfg, bs, event, tokens(event.service_name, event.model),
                         event.total_tokens, "TokenUsageSpike")

zscore_detect_cost(cfg, bs, event) ==
    zscore_detect_metric(cfg, bs, event, cost(event.service_name, event.model),
                         event.cost_usd, "CostAnomaly")

\* ZScoreDetector::detect: latency, then tokens, then cost
zscore_detect(cfg, bs, event) ==
    IF zscore_detect_latency(cfg, bs, event) # None THEN zscore_detect_latency(cfg, bs, event)
    ELSE IF zscore_detect_tokens(cfg, bs, event) # None THEN zscore_detect_tokens(cfg, bs, event)
    ELSE zscore_detect_cost(cfg, bs, event)

\* IqrDetector::calculate_severity
iqr_calculate_severity(cfg, value, baseline) ==
    LET upper_bound == RAdd(baseline.q3, RMul(cfg.multiplier, baseline.iqr))
        extreme_bound == RAdd(baseline.q3, RMul(FromInt(3), baseline.iqr))
    IN  IF RLt(extreme_bound, FromInt(value)) THEN "Critical"
        ELSE IF RLt(RMul(upper_bound, Rat(3, 2)), FromInt(value)) THEN "High"
        ELSE IF RLt(upper_bound, FromInt(value)) THEN "Medium"
        ELSE "Low"

\* IqrDetector::detect_latency from the snapshot read on: baseline is what
\* get(key).unwrap() returned
iqr_detect_from(cfg, baseline, event) ==
    IF is_iqr_outlier(event.latency_ms, baseline.q1, baseline.q3, baseline.iqr, cfg.multiplier)
    THEN Some(Anomaly(iqr_calculate_severity(cfg, event.latency_ms, baseline),
                      "LatencySpike", event, "Iqr", "latency_ms", event.latency_ms, baseline))
    ELSE None

\* IqrDetector::detect (detect_latency) run without interruption
iqr_detect(cfg, bs, event) ==
    LET key == latency(event.service_name, event.model)
    IN  IF ~has_valid_baseline(bs, key) THEN None
        ELSE iqr_detect_from(cfg, get(bs, key)[1], event)

\* MadDetector::detect (detect_latency)
mad_detect(cfg, bs, event) ==
    LET key == latency(event.service_name, event.model)
    IN  IF ~has_valid_baseline(bs, key) THEN None
        ELSE LET baseline == get(bs, key)[1]
             IN  IF is_mad_outlier(event.latency_ms, baseline.median, baseline.mad,
                                   cfg.threshold)
                 THEN Some(Anomaly(IF RLt(baseline.p99, FromInt(event.latency_ms))
                                   THEN "High" ELSE "Medium",
                                   "LatencySpike", event, "Mad", key.metric,
                                   event.latency_ms, baseline))
                 ELSE None

\* CusumState::new
new_cusum_state == [cusum_pos |-> Zero, cusum_neg |-> Zero, count |-> 0]

\* (mutant) the accumulators are not clamped at zero
cusum_detect_unclamped(cfg, bs, st, event) ==
    LET key == cost(event.service_name, event.model)
    IN  IF ~has_valid_baseline(bs, key) THEN [result |-> None, states |-> st]
        ELSE LET baseline == get(bs, key)[1]
                 state == IF key \in DOMAIN st THEN st[key] ELSE new_cusum_state
                 deviation == RSub(FromInt(event.cost_usd), baseline.mean)
                 cusum_pos == RSub(RAdd(state.cusum_pos, deviation), cfg.slack)
                 cusum_neg == RAdd(RAdd(state.cusum_neg, deviation), cfg.slack)
             IN  IF RLt(cfg.threshold, cusum_pos) \/ RLt(cfg.threshold, RAbs(cusum_neg))
                 THEN [result |-> Some(Anomaly(IF RLt(RMul(cfg.threshold, FromInt(2)), cusum_pos)
                                               THEN "High" ELSE "Medium",
                                               "CostAnomaly", event, "Cusum", key.metric,
                                               event.cost_usd, baseline)),
                       states |-> Insert(st, key, new_cusum_state)]
                 ELSE [result |-> None,
                       states |-> Insert(st, key, [cusum_pos |-> cusum_pos,
                                                   cusum_neg |-> cusum_neg,
                                                   count |-> state.count + 1])]

\* (mutant) the accumulators are kept when an anomaly is emitted
cusum_detect_no_reset(cfg, bs, st, event) ==
    LET key == cost(event.service_name, event.model)
    IN  IF ~has_valid_baseline(bs, key) THEN [result |-> None, states |-> st]
        ELSE LET baseline == get(bs, key)[1]
                 state == IF key \in DOMAIN st THEN st[key] ELSE new_cusum_state
                 deviation == RSub(FromInt(event.cost_usd), baseline.mean)
                 cusum_pos == RMax(RSub(RAdd(state.cusum_pos, deviation), cfg.slack), Zero)
                 cusum_neg == RMin(RAdd(RAdd(state.cusum_neg, deviation), cfg.slack), Zero)
             IN  IF RLt(cfg.threshold, cusum_pos) \/ RLt(cfg.threshold, RAbs(cusum_neg))
                 THEN [result |-> Some(Anomaly(IF RLt(RMul(cfg.threshold, FromInt(2)), cusum_pos)
                                               THEN "High" ELSE "Medium",
                                               "CostAnomaly", event, "Cusum", key.metric,
                                               event.cost_usd, baseline)),
                       states |-> Insert(st, key, [cusum_pos |-> cusum_pos,
                                                   cusum_neg |-> cusum_neg,
                                                   count |-> state.count + 1])]
                 ELSE [result |-> None,
                       states |-> Insert(st, key, [cusum_pos |-> cusum_pos,
                                                   cusum_neg |-> cusum_neg,
                                                   count |-> state.count + 1])]

\* CusumDetector::detect (detect_cost_drift on the shared states map)
cusum_detect(cfg, bs, st, event) ==
    LET key == cost(event.service_name, event.model)
    IN  IF ~has_valid_baseline(bs, key) THEN [result |-> None, states |-> st]
        ELSE LET baseline == get(bs, key)[1]
                 state == IF key \in DOMAIN st THEN st[key] ELSE new_cusum_state
                 deviation == RSub(FromInt(event.cost_usd), baseline.mean)
                 cusum_pos == RMax(RSub(RAdd(state.cusum_pos, deviation), cfg.slack), Zero)
                 cusum_neg == RMin(RAdd(RAdd(state.cusum_neg, deviation), cfg.slack), Zero)
             IN  IF RLt(cfg.threshold, cusum_pos) \/ RLt(cfg.threshold, RAbs(cusum_neg))
                 THEN [result |-> Some(Anomaly(IF RLt(RMul(cfg.threshold, FromInt(2)), cusum_pos)
                                               THEN "High" ELSE "Medium",
                                               "CostAnomaly", event, "Cusum", key.metric,
                                               event.cost_usd, baseline)),
                       states |-> Insert(st, key, new_cusum_state)]
                 ELSE [result |-> None,
                       states |-> Insert(st, key, [cusum_pos |-> cusum_pos,
                                                   cusum_neg |-> cusum_neg,
                                                   count |-> state.count + 1])]

\* Detector::detect of the detector called name
detector_detect(name, cfg, bs, st, event) ==
    CASE name = "zscore" -> [result |-> zscore_detect(cfg.zscore_config, bs, event), states |-> st]
      [] name = "iqr" -> [result |-> iqr_detect(cfg.iqr_config, bs, event), states |-> st]
      [] name = "mad" -> [result |-> mad_detect(cfg.mad_config, bs, event), states |-> st]
      [] name = "cusum" -> cusum_detect(cfg.cusum_config, bs, st, event)

\* Detector::update of the detector called name: the (key, value) pairs it
\* hands to BaselineManager::update, in order
detector_update(name, cfg, event) ==
    LET lat == <<latency(event.service_name, event.model), event.latency_ms>>
        tok == <<tokens(event.service_name, event.model), event.total_tokens>>
        cst == <<cost(event.service_name, event.model), event.cost_usd>>
    IN  CASE name = "zscore" ->
               IF cfg.zscore_config.detection.update_baseline THEN <<lat, tok, cst>> ELSE <<>>
          [] name = "iqr" ->
               IF cfg.iqr_config.detection.update_baseline THEN <<lat>> ELSE <<>>
          [] name = "mad" ->
               IF cfg.mad_config.detection.update_baseline THEN <<lat>> ELSE <<>>
          [] name = "cusum" ->
               IF cfg.cusum_config.detection.update_baseline THEN <<cst>> ELSE <<>>

---------------------------------------------------------------------------
(* The detection engine (engine.rs) *)

\* (mutant) the engine is built even when no detector is enabled
new_accepts_no_detectors(cfg) ==
    [result |-> "Ok",
     detectors |-> (IF cfg.enable_zscore THEN <<"zscore">> ELSE <<>>)
                   \o (IF cfg.enable_iqr THEN <<"iqr">> ELSE <<>>)
                   \o (IF cfg.enable_mad THEN <<"mad">> ELSE <<>>)
                   \o (IF cfg.enable_cusum THEN <<"cusum">> ELSE <<>>)]

\* DetectionEngine::new
new(cfg) ==
    LET ds == (IF cfg.enable_zscore THEN <<"zscore">> ELSE <<>>)
              \o (IF cfg.enable_iqr THEN <<"iqr">> ELSE <<>>)
              \o (IF cfg.enable_mad THEN <<"mad">> ELSE <<>>)
              \o (IF cfg.enable_cusum THEN <<"cusum">> ELSE <<>>)
    IN  IF ds = <<>> THEN [result |-> "Err", detectors |-> <<>>]
        ELSE [result |-> "Ok", detectors |-> ds]

\* (mutant) EngineStats::update counts an event only when it was flagged
stats_update_flagged_only(st, detected) ==
    [events_processed |-> st.events_processed + (IF detected THEN 1 ELSE 0),
     anomalies_detected |-> st.anomalies_detected + (IF detected THEN 1 ELSE 0)]

\* EngineStats::update
stats_update(st, detected) ==
    [events_processed |-> st.events_processed + 1,
     anomalies_detected |-> st.anomalies_detected + (IF detected THEN 1 ELSE 0)]

\* (mutant) the loop of DetectionEngine::detect goes on after an anomaly and
\* returns the first one
RECURSIVE consult_all(_, _, _, _, _, _, _)
consult_all(ds, cfg, bs, st, event, invoked, failing) ==
    IF ds = <<>> THEN [result |-> None, states |-> st, invoked |-> invoked]
    ELSE LET r == detector_detect(Head(ds), cfg, bs, st, event)
             rest == consult_all(Tail(ds), cfg, bs, r.states, event,
                                 Append(invoked, Head(ds)), failing)
         IN  [result |-> IF r.result # None THEN r.result ELSE rest.result,
              states |-> rest.states, invoked |-> rest.invoked]

\* (mutant) the loop of DetectionEngine::detect gives up at the first
\* detector whose detect returns an error
RECURSIVE consult_stops_at_error(_, _, _, _, _, _, _)
consult_stops_at_error(ds, cfg, bs, st, event, invoked, failing) ==
    IF ds = <<>> THEN [result |-> None, states |-> st, invoked |-> invoked]
    ELSE IF Head(ds) \in failing
    THEN [result |-> None, states |-> st, invoked |-> Append(invoked, Head(ds))]
    ELSE LET r == detector_detect(Head(ds), cfg, bs, st, event)
         IN  IF r.result # None
             THEN [result |-> r.result, states |-> r.states,
                   invoked |-> Append(invoked, Head(ds))]
             ELSE consult_stops_at_error(Tail(ds), cfg, bs, r.states, event,
                                         Append(invoked, Head(ds)), failing)

\* the loop of DetectionEngine::detect over the detectors ds: the verdict,
\* the CUSUM states afterwards, and the detectors whose detect was invoked.
\* `failing` is the set of detectors whose detect returns Err for this event
\* (none of the four detectors of this repository ever does); such a call
\* is taken to leave no trace in the detector.
RECURSIVE consult(_, _, _, _, _, _, _)
consult(ds, cfg, bs, st, event, invoked, failing) ==
    IF ds = <<>> THEN [result |-> None, states |-> st, invoked |-> invoked]
    ELSE IF Head(ds) \in failing
    THEN consult(Tail(ds), cfg, bs, st, event, Append(invoked, Head(ds)), failing)
    ELSE LET r == detector_detect(Head(ds), cfg, bs, st, event)
         IN  IF r.result # None
             THEN [result |-> r.result, states |-> r.states,
                   invoked |-> Append(invoked, Head(ds))]
             ELSE consult(Tail(ds), cfg, bs, r.states, event,
                          Append(invoked, Head(ds)), failing)

\* the BaselineManager::update calls in order, stopping at a panic
RECURSIVE update_each(_, _, _, _)
update_each(pushes, ws, bs, window_size) ==
    IF pushes = <<>> THEN [panic |-> FALSE, windows |-> ws, baselines |-> bs]
    ELSE LET r == update(ws, bs, window_size, Head(pushes)[1], Head(pushes)[2])
         IN  IF r.panic THEN r
             ELSE update_each(Tail(pushes), r.windows, r.baselines, window_size)

\* the update calls DetectionEngine::update makes, detector by detector
RECURSIVE engine_pushes(_, _, _)
engine_pushes(ds, cfg, event) ==
    IF ds = <<>> THEN <<>>
    ELSE detector_update(Head(ds), cfg, event) \o engine_pushes(Tail(ds), cfg, event)

\* DetectionEngine::update
engine_update(ds, cfg, ws, bs, event) ==
    IF ~cfg.continuous_learning THEN [panic |-> FALSE, windows |-> ws, baselines |-> bs]
    ELSE update_each(engine_pushes(ds, cfg, event), ws, bs, cfg.baseline_window_size)

\* DetectionEngine::detect
engine_detect(ds, cfg, bs, st, stt, event, failing) ==
    LET c == consult(ds, cfg, bs, st, event, <<>>, failing)
    IN  [result |-> c.result, states |-> c.states, invoked |-> c.invoked,
         stats |-> stats_update(stt, c.result # None)]

\* (mutant) process leaves the baselines alone when it found an anomaly
process_no_update_on_anomaly(ds, cfg, ws, bs, st, stt, event, failing) ==
    LET d == engine_detect(ds, cfg, bs, st, stt, event, failing)
        u == IF d.result # None THEN [panic |-> FALSE, windows |-> ws, baselines |-> bs]
             ELSE engine_update(ds, cfg, ws, bs, event)
    IN  [panic |-> u.panic, result |-> d.result, invoked |-> d.invoked, saw |-> bs,
         states |-> d.states, stats |-> d.stats, windows |-> u.windows,
         baselines |-> u.baselines]

\* (mutant) process folds the event in first and detects afterwards
process_update_first(ds, cfg, ws, bs, st, stt, event, failing) ==
    LET u == engine_update(ds, cfg, ws, bs, event)
        d == engine_detect(ds, cfg, u.baselines, st, stt, event, failing)
    IN  [panic |-> u.panic, result |-> d.result, invoked |-> d.invoked, saw |-> u.baselines,
         states |-> d.states, stats |-> d.stats, windows |-> u.windows,
         baselines |-> u.baselines]

\* DetectionEngine::process: detect, then update.  `saw` is the snapshots the
\* detect calls read.
process(ds, cfg, ws, bs, st, stt, event, failing) ==
    LET d == engine_detect(ds, cfg, bs, st, stt, event, failing)
        u == engine_update(ds, cfg, ws, bs, event)
    IN  [panic |-> u.panic, result |-> d.result, invoked |-> d.invoked, saw |-> bs,
         states |-> d.states, stats |-> d.stats, windows |-> u.windows,
         baselines |-> u.baselines]

\* DetectionEngine::stats: the engine's counters and, for each detector, what
\* its Detector::stats returns (a clone of its stats field)
engine_stats(ds, stt, dstats) ==
    [events_processed |-> stt.events_processed,
     anomalies_detected |-> stt.anomalies_detected,
     detector_stats |-> [d \in {ds[i] : i \in DOMAIN ds} |-> dstats[d]]]

\* BaselineManager::clear_all
clear_all(ws, bs) == [windows |-> [k \in {} |-> <<>>], baselines |-> [k \in {} |-> <<>>]]

\* Detector::reset of the detector called name: all four clear the shared
\* baseline store, the CUSUM detector its states map too
detector_reset(name, ws, bs, st) ==
    [windows |-> clear_all(ws, bs).windows, baselines |-> clear_all(ws, bs).baselines,
     states |-> IF name = "cusum" THEN [k \in {} |-> <<>>] ELSE st]

\* the loop of DetectionEngine::reset over the detectors ds
RECURSIVE reset_each(_, _, _, _)
reset_each(ds, ws, bs, st) ==
    IF ds = <<>> THEN [windows |-> ws, baselines |-> bs, states |-> st]
    ELSE reset_each(Tail(ds), detector_reset(Head(ds), ws, bs, st).windows,
                    detector_reset(Head(ds), ws, bs, st).baselines,
                    detector_reset(Head(ds), ws, bs, st).states)

\* (mutant) reset empties the windows and leaves the snapshots in place
reset_keeps_snapshots(ds, ws, bs, st) ==
    [windows |-> reset_each(ds, ws, bs, st).windows, baselines |-> bs,
     states |-> reset_each(ds, ws, bs, st).states,
     stats |-> [events_processed |-> 0, anomalies_detected |-> 0]]

\* DetectionEngine::reset
reset(ds, ws, bs, st) ==
    [windows |-> reset_each(ds, ws, bs, st).windows,
     baselines |-> reset_each(ds, ws, bs, st).baselines,
     states |-> reset_each(ds, ws, bs, st).states,
     stats |-> [events_processed |-> 0, anomalies_detected |-> 0]]

---------------------------------------------------------------------------
(* The detection engine's state while no engine is in play *)

\* an empty DashMap
EmptyStore == [k \in {} |-> <<>>]

\* EngineStats::default
NewEngineStats == [events_processed |-> 0, anomalies_detected |-> 0]

EngineIdle ==
    /\ config = DefaultEngineConfig
    /\ built = "none"
    /\ detectors = <<>>
    /\ windows = EmptyStore
    /\ baselines = EmptyStore
    /\ states = EmptyStore
    /\ stats = NewEngineStats
    /\ calls = <<>>
    /\ panicked = {}
    /\ threads = <<>>
    /\ previous = <<>>
    /\ trace = <<>>
    /\ detector_stats = NewDetectorStats(detectors)

\* the state of the deduplicator, the rolling window and the engine while a
\* sender, the ingester or the ingestion pipeline is examined by itself
DetectionIdle ==
    /\ enabled = TRUE
    /\ now = 0
    /\ entries = EmptyMap
    /\ twin = EmptyMap
    /\ log = <<>>
    /\ lastOp = "new"
    /\ issued = 0
    /\ callers = IdleCallers
    /\ capacity = 1
    /\ data = <<>>
    /\ pushed = <<>>
    /\ EngineIdle

---------------------------------------------------------------------------
(* The deduplicator driven by one caller: the pipeline driver calls          *)
(* should_send for one anomaly at a time, the cleanup task calls             *)
(* cleanup_expired, the clock advances.                                      *)

Init ==
    /\ enabled \in BOOLEAN
    /\ now = 0
    /\ entries = EmptyMap
    /\ twin = EmptyMap
    /\ log = <<>>
    /\ lastOp = "new"
    /\ issued = 0
    /\ callers = IdleCallers
    /\ capacity = 1
    /\ data = <<>>
    /\ pushed = <<>>
    /\ EngineIdle
    /\ ServicesIdle

ShouldSend ==
    /\ issued < MaxCalls
    /\ \E sig \in EventSigs :
         LET event == AnomalyEvent(sig, issued + 1)
             r == should_send(enabled, entries, event, now)
             rt == should_send(enabled, twin, event, now)
         IN  /\ entries' = r.entries
             /\ twin' = rt.entries
             /\ log' = Append(log, CallRecord(sig, issued + 1, now, r.ret, rt.ret,
                                              EntryOf(entries, sig), Len(log)))
    /\ issued' = issued + 1
    /\ lastOp' = "should_send"
    /\ UNCHANGED <<enabled, now, callers, windowVars, engineVars, driverVars, detector_stats, serviceVars>>

CleanupExpired ==
    /\ entries' = cleanup_expired(entries, now)
    /\ lastOp' = "cleanup_expired"
    /\ UNCHANGED <<enabled, now, twin, log, issued, callers, windowVars, engineVars, driverVars, detector_stats, serviceVars>>

Tick ==
    /\ now < MaxTime
    /\ now' = now + 1
    /\ lastOp' = "tick"
    /\ UNCHANGED <<enabled, entries, twin, log, issued, callers, windowVars, engineVars, driverVars, detector_stats, serviceVars>>

Next == ShouldSend \/ CleanupExpired \/ Tick

Spec == Init /\ [][Next]_vars

---------------------------------------------------------------------------
(* The deduplicator shared by concurrent callers: should_send is two steps   *)
(* when get_mut finds nothing (the lookup, then the insert), one step under  *)
(* the shard lock when it finds the entry.                                   *)

InitConc ==
    /\ enabled = TRUE
    /\ now = 0
    /\ entries = EmptyMap
    /\ twin = EmptyMap
    /\ log = <<>>
    /\ lastOp = "new"
    /\ issued = 0
    /\ callers = IdleCallers
    /\ capacity = 1
    /\ data = <<>>
    /\ pushed = <<>>
    /\ EngineIdle
    /\ ServicesIdle

\* lines 116-146: the enabled test, get_mut, and the branch under the lock
GetMut(p) ==
    /\ callers[p].pc = "idle"
    /\ issued < MaxCalls
    /\ issued' = issued + 1
    /\ lastOp' = "should_send"
    /\ \E sig \in ConcSigs :
         LET event == AnomalyEvent(sig, issued + 1)
             key == from_event(event)
         IN  IF ~enabled
             THEN /\ log' = Append(log, CallRecord(sig, event.alert_id, now, TRUE, TRUE,
                                                   EntryOf(entries, sig), Len(log)))
                  /\ UNCHANGED <<entries, callers, detector_stats, serviceVars>>
             ELSE IF key \in DOMAIN entries
             THEN LET r == should_send_found(entries, key, event.alert_id, now)
                  IN  /\ entries' = r.entries
                      /\ log' = Append(log, CallRecord(sig, event.alert_id, now, r.ret, r.ret,
                                                       EntryOf(entries, sig), Len(log)))
                      /\ UNCHANGED callers
             ELSE /\ callers' = [callers EXCEPT
                                   ![p] = [pc |-> "insert", event |-> event, began |-> Len(log)]]
                  /\ UNCHANGED <<entries, log, detector_stats, serviceVars>>
    /\ UNCHANGED <<enabled, now, twin, windowVars, engineVars, driverVars, detector_stats, serviceVars>>

\* lines 147-154: the insert of the else branch
InsertNew(p) ==
    /\ callers[p].pc = "insert"
    /\ LET event == callers[p].event
           r == should_send_absent(entries, from_event(event), event.alert_id, now)
       IN  /\ entries' = r.entries
           /\ log' = Append(log, CallRecord(SigOf(event), event.alert_id, now, r.ret, r.ret,
                                            NoEntry, callers[p].began))
    /\ callers' = [callers EXCEPT ![p].pc = "idle"]
    /\ lastOp' = "should_send"
    /\ UNCHANGED <<enabled, now, twin, issued, windowVars, engineVars, driverVars, detector_stats, serviceVars>>

CleanupConc ==
    /\ entries' = cleanup_expired(entries, now)
    /\ lastOp' = "cleanup_expired"
    /\ UNCHANGED <<enabled, now, twin, log, issued, callers, windowVars, engineVars, driverVars, detector_stats, serviceVars>>

TickConc ==
    /\ now < MaxTime
    /\ now' = now + 1
    /\ lastOp' = "tick"
    /\ UNCHANGED <<enabled, entries, twin, log, issued, callers, windowVars, engineVars, driverVars, detector_stats, serviceVars>>

NextConc ==
    \/ \E p \in Callers : GetMut(p)
    \/ \E p \in Callers : InsertNew(p)
    \/ CleanupConc
    \/ TickConc

SpecConc == InitConc /\ [][NextConc]_vars

---------------------------------------------------------------------------
(* A RollingWindow of some capacity c >= 1 under push and clear              *)

InitWindow ==
    /\ enabled = TRUE
    /\ now = 0
    /\ entries = EmptyMap
    /\ twin = EmptyMap
    /\ log = <<>>
    /\ lastOp = "new"
    /\ issued = 0
    /\ callers = IdleCallers
    /\ capacity \in 1..MaxCap
    /\ data = <<>>
    /\ pushed = <<>>
    /\ EngineIdle
    /\ ServicesIdle

Push ==
    /\ Len(pushed) < MaxPushes
    /\ \E value \in Values :
         /\ data' = push(data, capacity, value)
         /\ pushed' = Append(pushed, value)
    /\ UNCHANGED <<dedupVars, callers, capacity, engineVars, driverVars, detector_stats, serviceVars>>

\* RollingWindow::clear
Clear ==
    /\ data' = <<>>
    /\ pushed' = <<>>
    /\ UNCHANGED <<dedupVars, callers, capacity, engineVars, driverVars, detector_stats, serviceVars>>

NextWindow == Push \/ Clear

SpecWindow == InitWindow /\ [][NextWindow]_vars

---------------------------------------------------------------------------
(* A detection engine built from some configuration and fed events one at a  *)
(* time through process, as the pipeline driver does.                        *)

\* a TelemetryEvent of the one service and model in play
TelemetryEvent(latency_ms, total_tokens, cost_usd) ==
    [service_name |-> "svc-A", model |-> "gpt-4", latency_ms |-> latency_ms,
     total_tokens |-> total_tokens, cost_usd |-> cost_usd]

\* the events fed to the engine: an ordinary one, one that is slightly
\* slower and costs more, one with a latency spike
Events ==
    { TelemetryEvent(10, 100, 1), TelemetryEvent(12, 100, 9), TelemetryEvent(100, 100, 1) }

AllDetectors ==
    [DefaultEngineConfig EXCEPT !.enable_mad = TRUE, !.baseline_window_size = 10]

\* the configurations an engine is built from: every detector, the default
\* detectors, no detector, a window of capacity 0, a window shorter than the
\* 10 samples a valid baseline needs
EngineConfigs ==
    { AllDetectors,
      [DefaultEngineConfig EXCEPT !.baseline_window_size = 10],
      [AllDetectors EXCEPT !.enable_zscore = FALSE, !.enable_iqr = FALSE,
                           !.enable_mad = FALSE, !.enable_cusum = FALSE],
      [DefaultEngineConfig EXCEPT !.baseline_window_size = 0],
      [AllDetectors EXCEPT !.baseline_window_size = 4] }

\* the record of one completed engine call
EngineCall(op, event, r) ==
    [op |-> op, event |-> event, result |-> r.result, invoked |-> r.invoked,
     panic |-> r.panic]

InitEngine ==
    /\ enabled = TRUE
    /\ now = 0
    /\ entries = EmptyMap
    /\ twin = EmptyMap
    /\ log = <<>>
    /\ lastOp = "new"
    /\ issued = 0
    /\ callers = IdleCallers
    /\ capacity = 1
    /\ data = <<>>
    /\ pushed = <<>>
    /\ config \in EngineConfigs
    /\ built = "none"
    /\ detectors = <<>>
    /\ windows = EmptyStore
    /\ baselines = EmptyStore
    /\ states = EmptyStore
    /\ stats = NewEngineStats
    /\ calls = <<>>
    /\ panicked = {}
    /\ threads = <<>>
    /\ previous = <<>>
    /\ trace = <<>>
    /\ detector_stats = NewDetectorStats(detectors)
    /\ ServicesIdle

\* DetectionEngine::new(config)
New ==
    /\ built = "none"
    /\ built' = new(config).result
    /\ detectors' = new(config).detectors
    /\ detector_stats' = NewDetectorStats(new(config).detectors)
    /\ UNCHANGED <<dedupVars, callers, windowVars, driverVars, config, storeVars, states, stats,
                   calls, panicked, threads, serviceVars>>

\* the engine's state after a process call that returned r
Processed(event, r) ==
    /\ windows' = r.windows
    /\ baselines' = r.baselines
    /\ states' = r.states
    /\ stats' = r.stats
    /\ calls' = Append(calls, EngineCall("process", event, r))
    /\ panicked' = IF r.panic THEN {"engine"} ELSE {}

\* DetectionEngine::process(event)
Process ==
    /\ built = "Ok"
    /\ panicked = {}
    /\ Len(calls) < MaxEvents
    /\ \E event \in Events :
         Processed(event, process(detectors, config, windows, baselines, states, stats,
                                  event, {}))
    /\ UNCHANGED <<dedupVars, callers, windowVars, driverVars, config, built, detectors, threads, detector_stats, serviceVars>>

NextEngine == New \/ Process

SpecEngine == InitEngine /\ [][NextEngine]_vars

---------------------------------------------------------------------------
(* The baseline store shared by concurrent callers.  Each DashMap operation  *)
(* is one step.  BaselineManager::update keeps the RefMut of the key's       *)
(* window, and so the write lock of its windows shard, until it returns;     *)
(* its baselines.insert and baselines.get lock the baselines map one        *)
(* operation at a time.  clear and clear_all are two operations each, a      *)
(* detector's detect is has_valid_baseline followed by get.  One key is in   *)
(* play and every update pushes the same value.                              *)

StoreKey == latency("svc-A", "gpt-4")

\* the event the detect calls examine, and the value the update calls push
SpikeEvent == TelemetryEvent(100, 100, 1)
OrdinaryEvent == TelemetryEvent(10, 100, 1)

IqrOnly ==
    [AllDetectors EXCEPT !.enable_zscore = FALSE, !.enable_mad = FALSE,
                         !.enable_cusum = FALSE]

IdleThread == [pc |-> "idle", ret |-> "none"]

\* some update call holds the write lock on the key's windows shard
WindowLocked == \E t \in StoreThreads : threads[t].pc \in {"update_insert", "update_get"}

InitStore ==
    /\ enabled = TRUE
    /\ now = 0
    /\ entries = EmptyMap
    /\ twin = EmptyMap
    /\ log = <<>>
    /\ lastOp = "new"
    /\ issued = 0
    /\ callers = IdleCallers
    /\ capacity = 1
    /\ data = <<>>
    /\ pushed = <<>>
    /\ config = IqrOnly
    /\ built = new(IqrOnly).result
    /\ detectors = new(IqrOnly).detectors
    /\ windows = EmptyStore
    /\ baselines = EmptyStore
    /\ states = EmptyStore
    /\ stats = NewEngineStats
    /\ calls = <<>>
    /\ panicked = {}
    /\ threads = [t \in StoreThreads |-> IdleThread]
    /\ previous = <<>>
    /\ trace = <<>>
    /\ detector_stats = NewDetectorStats(detectors)
    /\ ServicesIdle

\* update, lines 173-179: entry(key).or_insert_with, push, is_full
UpdatePush(t) ==
    /\ threads[t].pc = "idle"
    /\ ~WindowLocked
    /\ LET pushedw == push(WindowOf(windows, StoreKey), config.baseline_window_size,
                           OrdinaryEvent.latency_ms)
       IN  /\ windows' = Insert(windows, StoreKey, pushedw)
           /\ threads' = [threads EXCEPT ![t] =
                             IF is_full(pushedw, config.baseline_window_size)
                             THEN [pc |-> "update_insert", ret |-> "none"]
                             ELSE [pc |-> "idle", ret |-> "Ok"]]
    /\ UNCHANGED <<dedupVars, callers, windowVars, driverVars, config, built, detectors, baselines,
                   states, stats, calls, panicked, detector_stats, serviceVars>>

\* update, lines 180-181: Baseline::from_data(window.data()), baselines.insert
UpdateInsert(t) ==
    /\ threads[t].pc = "update_insert"
    /\ baselines' = Insert(baselines, StoreKey, from_data(windows[StoreKey]))
    /\ threads' = [threads EXCEPT ![t].pc = "update_get"]
    /\ UNCHANGED <<dedupVars, callers, windowVars, driverVars, config, built, detectors, windows,
                   states, stats, calls, panicked, detector_stats, serviceVars>>

\* update, line 199: baselines.get(&key).unwrap(), then return
UpdateGet(t) ==
    /\ threads[t].pc = "update_get"
    /\ IF get(baselines, StoreKey) = None
       THEN /\ panicked' = panicked \cup {"update"}
            /\ threads' = [threads EXCEPT ![t] = [pc |-> "idle", ret |-> "panic"]]
       ELSE /\ panicked' = panicked
            /\ threads' = [threads EXCEPT ![t] = [pc |-> "idle", ret |-> "Ok"]]
    /\ UNCHANGED <<dedupVars, callers, windowVars, driverVars, config, built, detectors, storeVars,
                   states, stats, calls, detector_stats, serviceVars>>

\* BaselineManager::get
Get(t) ==
    /\ threads[t].pc = "idle"
    /\ threads' = [threads EXCEPT ![t].ret =
                      IF get(baselines, StoreKey) = None THEN "None" ELSE "Some"]
    /\ UNCHANGED <<dedupVars, callers, windowVars, driverVars, config, built, detectors, storeVars,
                   states, stats, calls, panicked, detector_stats, serviceVars>>

\* BaselineManager::has_valid_baseline
HasValidBaseline(t) ==
    /\ threads[t].pc = "idle"
    /\ threads' = [threads EXCEPT ![t].ret =
                      IF has_valid_baseline(baselines, StoreKey) THEN "true" ELSE "false"]
    /\ UNCHANGED <<dedupVars, callers, windowVars, driverVars, config, built, detectors, storeVars,
                   states, stats, calls, panicked, detector_stats, serviceVars>>

\* clear, line 228: windows.remove(key)
ClearWindow(t) ==
    /\ threads[t].pc = "idle"
    /\ ~WindowLocked
    /\ windows' = Remove(windows, StoreKey)
    /\ threads' = [threads EXCEPT ![t] = [pc |-> "clear_baseline", ret |-> "none"]]
    /\ UNCHANGED <<dedupVars, callers, windowVars, driverVars, config, built, detectors, baselines,
                   states, stats, calls, panicked, detector_stats, serviceVars>>

\* clear, line 229: baselines.remove(key), then return
ClearBaseline(t) ==
    /\ threads[t].pc = "clear_baseline"
    /\ baselines' = Remove(baselines, StoreKey)
    /\ threads' = [threads EXCEPT ![t] = [pc |-> "idle", ret |-> "Ok"]]
    /\ UNCHANGED <<dedupVars, callers, windowVars, driverVars, config, built, detectors, windows,
                   states, stats, calls, panicked, detector_stats, serviceVars>>

\* clear_all, line 241: windows.clear()
ClearAllWindows(t) ==
    /\ threads[t].pc = "idle"
    /\ ~WindowLocked
    /\ windows' = EmptyStore
    /\ threads' = [threads EXCEPT ![t] = [pc |-> "clear_all_baselines", ret |-> "none"]]
    /\ UNCHANGED <<dedupVars, callers, windowVars, driverVars, config, built, detectors, baselines,
                   states, stats, calls, panicked, detector_stats, serviceVars>>

\* clear_all, line 242: baselines.clear(), then return
ClearAllBaselines(t) ==
    /\ threads[t].pc = "clear_all_baselines"
    /\ baselines' = EmptyStore
    /\ threads' = [threads EXCEPT ![t] = [pc |-> "idle", ret |-> "Ok"]]
    /\ UNCHANGED <<dedupVars, callers, windowVars, driverVars, config, built, detectors, windows,
                   states, stats, calls, panicked, detector_stats, serviceVars>>

\* IqrDetector::detect_latency, lines 69-71: the validity check
DetectCheck(t) ==
    /\ threads[t].pc = "idle"
    /\ threads' = [threads EXCEPT ![t] =
                      IF has_valid_baseline(baselines, StoreKey)
                      THEN [pc |-> "detect_get", ret |-> "none"]
                      ELSE [pc |-> "idle", ret |-> "Ok(None)"]]
    /\ UNCHANGED <<dedupVars, callers, windowVars, driverVars, config, built, detectors, storeVars,
                   states, stats, calls, panicked, detector_stats, serviceVars>>

\* IqrDetector::detect_latency, lines 73-132: get(&key).unwrap() and the verdict
DetectGet(t) ==
    /\ threads[t].pc = "detect_get"
    /\ IF get(baselines, StoreKey) = None
       THEN /\ panicked' = panicked \cup {"detect"}
            /\ threads' = [threads EXCEPT ![t] = [pc |-> "idle", ret |-> "panic"]]
       ELSE /\ panicked' = panicked
            /\ threads' = [threads EXCEPT ![t] =
                  [pc |-> "idle",
                   ret |-> IF iqr_detect_from(config.iqr_config, get(baselines, StoreKey)[1],
                                              SpikeEvent) = None
                           THEN "Ok(None)" ELSE "Ok(Some)"]]
    /\ UNCHANGED <<dedupVars, callers, windowVars, driverVars, config, built, detectors, storeVars,
                   states, stats, calls, detector_stats, serviceVars>>

NextStore ==
    \E t \in StoreThreads :
        \/ UpdatePush(t) \/ UpdateInsert(t) \/ UpdateGet(t)
        \/ Get(t) \/ HasValidBaseline(t)
        \/ ClearWindow(t) \/ ClearBaseline(t)
        \/ ClearAllWindows(t) \/ ClearAllBaselines(t)
        \/ DetectCheck(t) \/ DetectGet(t)

SpecStore == InitStore /\ [][NextStore]_vars

---------------------------------------------------------------------------
(* Concurrent update calls on the baseline store, on two keys.  update holds *)
(* the write lock on the key's windows shard from entry(key) until it        *)
(* returns; a second update of the key waits at entry(key).  Readers call    *)
(* get at any time.  `calls` lists the update calls in the order in which    *)
(* they took the lock.                                                       *)

\* capacity of the store's windows
UpdateCap == 2
\* number of update calls per behaviour
MaxUpdates == 4

UpdateKeys == {latency("svc-A", "gpt-4"), cost("svc-A", "gpt-4")}
UpdateValues == {1, 2}

\* some update call holds the write lock on key's windows shard
Locked(key) ==
    \E t \in StoreThreads : threads[t].pc \in {"snapshot", "gauge"} /\ threads[t].key = key

\* a caller's position and locals; seen is the snapshot its latest get
\* returned, with the key
IdleUpdater ==
    [pc |-> "idle", key |-> latency("svc-A", "gpt-4"), value |-> 0, ret |-> "none",
     seen |-> None]

InitUpdates ==
    /\ enabled = TRUE
    /\ now = 0
    /\ entries = EmptyMap
    /\ twin = EmptyMap
    /\ log = <<>>
    /\ lastOp = "new"
    /\ issued = 0
    /\ callers = IdleCallers
    /\ capacity = 1
    /\ data = <<>>
    /\ pushed = <<>>
    /\ config = [IqrOnly EXCEPT !.baseline_window_size = UpdateCap]
    /\ built = "none"
    /\ detectors = <<>>
    /\ windows = EmptyStore
    /\ baselines = EmptyStore
    /\ states = EmptyStore
    /\ stats = NewEngineStats
    /\ calls = <<>>
    /\ panicked = {}
    /\ threads = [t \in StoreThreads |-> IdleUpdater]
    /\ previous = <<>>
    /\ trace = <<>>
    /\ detector_stats = NewDetectorStats(detectors)
    /\ ServicesIdle

\* update(key, value), lines 173-179: entry(key).or_insert_with, push, is_full
UpdateEnter(t) ==
    /\ threads[t].pc = "idle"
    /\ Len(calls) < MaxUpdates
    /\ \E key \in UpdateKeys, value \in UpdateValues :
         LET pushedw == push(WindowOf(windows, key), config.baseline_window_size, value)
         IN  /\ ~Locked(key)
             /\ windows' = Insert(windows, key, pushedw)
             /\ calls' = Append(calls, [key |-> key, value |-> value])
             /\ threads' = [threads EXCEPT ![t] =
                               IF is_full(pushedw, config.baseline_window_size)
                               THEN [pc |-> "snapshot", key |-> key, value |-> value,
                                     ret |-> "none", seen |-> threads[t].seen]
                               ELSE [IdleUpdater EXCEPT !.ret = "Ok",
                                                        !.seen = threads[t].seen]]
    /\ UNCHANGED <<dedupVars, callers, windowVars, driverVars, config, built, detectors,
                   baselines, states, stats, panicked, detector_stats, serviceVars>>

\* update, lines 180-181: Baseline::from_data(window.data()), baselines.insert
UpdateSnapshot(t) ==
    /\ threads[t].pc = "snapshot"
    /\ baselines' = Insert(baselines, threads[t].key, from_data(windows[threads[t].key]))
    /\ threads' = [threads EXCEPT ![t].pc = "gauge"]
    /\ UNCHANGED <<dedupVars, callers, windowVars, driverVars, config, built, detectors,
                   windows, states, stats, calls, panicked, detector_stats, serviceVars>>

\* update, lines 190-202: the gauge reads baselines.get(&key).unwrap(), the
\* call returns and the lock is released
UpdateGauge(t) ==
    /\ threads[t].pc = "gauge"
    /\ IF get(baselines, threads[t].key) = None
       THEN /\ panicked' = panicked \cup {"update"}
            /\ threads' = [threads EXCEPT ![t] = [IdleUpdater EXCEPT !.ret = "panic",
                                                                    !.seen = threads[t].seen]]
       ELSE /\ panicked' = panicked
            /\ threads' = [threads EXCEPT ![t] = [IdleUpdater EXCEPT !.ret = "Ok",
                                                                    !.seen = threads[t].seen]]
    /\ UNCHANGED <<dedupVars, callers, windowVars, driverVars, config, built, detectors,
                   storeVars, states, stats, calls, detector_stats, serviceVars>>

\* BaselineManager::get(key) by a reader
ReadSnapshot(t) ==
    /\ threads[t].pc = "idle"
    /\ \E key \in UpdateKeys :
         threads' = [threads EXCEPT
                        ![t].ret = "Ok",
                        ![t].seen = IF get(baselines, key) = None THEN None
                                    ELSE Some([key |-> key, snapshot |-> get(baselines, key)[1]])]
    /\ UNCHANGED <<dedupVars, callers, windowVars, driverVars, config, built, detectors,
                   storeVars, states, stats, calls, panicked, detector_stats, serviceVars>>

NextUpdates ==
    \E t \in StoreThreads :
        UpdateEnter(t) \/ UpdateSnapshot(t) \/ UpdateGauge(t) \/ ReadSnapshot(t)

SpecUpdates == InitUpdates /\ [][NextUpdates]_vars

---------------------------------------------------------------------------
(* The CUSUM detector on its own, used as test_cusum_detector uses it: the   *)
(* cost baseline is warmed with update calls for events of one cost, then    *)
(* events of a stream are handed to detect, and an examined event may be     *)
(* folded into the baseline with update afterwards, as process does.         *)
(* `calls` keeps the latest detect call only, with running counts.           *)

\* number of stream events handed to detect
MaxDetects == 4
\* number of stream events in the cost-drift scenario
DriftStream == 30

CusumOnly ==
    [AllDetectors EXCEPT !.enable_zscore = FALSE, !.enable_iqr = FALSE, !.enable_mad = FALSE]

\* the cost-drift scenario: window capacity 20, threshold 5.0 and slack 0.5.
\* Its costs are counted in cents (0.01 USD is 1), so the threshold is 500
\* and the slack 50; the CUSUM recurrences are the same in any unit.
DriftConfig ==
    [CusumOnly EXCEPT !.baseline_window_size = 20,
                      !.cusum_config.threshold = FromInt(500),
                      !.cusum_config.slack = FromInt(50)]

\* an event that costs c
CostEvent(c) == TelemetryEvent(10, 100, c)

\* the cost of the warming events, the costs of the stream's events, and the
\* length of the stream
WarmCost(cfg) == IF cfg = DriftConfig THEN 1 ELSE 3
StreamCosts(cfg) == IF cfg = DriftConfig THEN {2} ELSE {1, 5, 14}
StreamLen(cfg) == IF cfg = DriftConfig THEN DriftStream ELSE MaxDetects

\* the record of a detect call: n is the number of detect calls made so far,
\* emitted the number of them that returned an anomaly, learned whether the
\* event was handed to update since
CusumCall(event, result, n, emitted) ==
    [event |-> event, result |-> result, n |-> n, emitted |-> emitted, learned |-> FALSE]

InitCusum ==
    /\ enabled = TRUE
    /\ now = 0
    /\ entries = EmptyMap
    /\ twin = EmptyMap
    /\ log = <<>>
    /\ lastOp = "new"
    /\ issued = 0
    /\ callers = IdleCallers
    /\ capacity = 1
    /\ data = <<>>
    /\ pushed = <<>>
    /\ config \in {CusumOnly, DriftConfig}
    /\ built = "Ok"
    /\ detectors = <<"cusum">>
    /\ windows = EmptyStore
    /\ baselines = EmptyStore
    /\ states = EmptyStore
    /\ stats = NewEngineStats
    /\ calls = <<>>
    /\ panicked = {}
    /\ threads = <<>>
    /\ previous = <<>>
    /\ trace = <<>>
    /\ detector_stats = NewDetectorStats(detectors)
    /\ ServicesIdle

\* CusumDetector::update for a warming event, until the window is full
CusumWarm ==
    /\ calls = <<>>
    /\ ~is_full(WindowOf(windows, cost("svc-A", "gpt-4")), config.baseline_window_size)
    /\ LET r == update_each(detector_update("cusum", config, CostEvent(WarmCost(config))),
                            windows, baselines, config.baseline_window_size)
       IN  /\ windows' = r.windows
           /\ baselines' = r.baselines
    /\ UNCHANGED <<dedupVars, callers, windowVars, driverVars, config, built, detectors,
                   states, stats, calls, panicked, threads, detector_stats, serviceVars>>

\* CusumDetector::detect for the next event of the stream
CusumDetect ==
    /\ is_full(WindowOf(windows, cost("svc-A", "gpt-4")), config.baseline_window_size)
    /\ IF calls = <<>> THEN TRUE ELSE calls[1].n < StreamLen(config)
    /\ \E c \in StreamCosts(config) :
         LET r == cusum_detect(config.cusum_config, baselines, states, CostEvent(c))
             n == IF calls = <<>> THEN 0 ELSE calls[1].n
             emitted == IF calls = <<>> THEN 0 ELSE calls[1].emitted
         IN  /\ states' = r.states
             /\ calls' = <<CusumCall(CostEvent(c), r.result, n + 1,
                                     emitted + (IF r.result # None THEN 1 ELSE 0))>>
    /\ UNCHANGED <<dedupVars, callers, windowVars, driverVars, config, built, detectors,
                   storeVars, stats, panicked, threads, detector_stats, serviceVars>>

\* CusumDetector::update for the event detect has just examined
CusumLearn ==
    /\ calls # <<>>
    /\ ~calls[1].learned
    /\ LET r == update_each(detector_update("cusum", config, calls[1].event),
                            windows, baselines, config.baseline_window_size)
       IN  /\ windows' = r.windows
           /\ baselines' = r.baselines
    /\ calls' = <<[calls[1] EXCEPT !.learned = TRUE]>>
    /\ UNCHANGED <<dedupVars, callers, windowVars, driverVars, config, built, detectors,
                   states, stats, panicked, threads, detector_stats, serviceVars>>

NextCusum == CusumWarm \/ CusumDetect \/ CusumLearn

SpecCusum == InitCusum /\ [][NextCusum]_vars

---------------------------------------------------------------------------
(* ZScoreDetector::calculate_severity applied to z-scores, as detect_latency *)
(* and its siblings apply it: to z.abs().  `calls` lists the z-scores and    *)
(* the severities returned.                                                  *)

\* the z-scores are the multiples of 1/ZDen from -MaxZ to MaxZ
MaxZ == 7
ZDen == 4
\* number of severities computed per behaviour
MaxSeverities == 2

ZScores == {Rat(k, ZDen) : k \in (0 - MaxZ * ZDen)..(MaxZ * ZDen)}

InitSeverity ==
    /\ enabled = TRUE
    /\ now = 0
    /\ entries = EmptyMap
    /\ twin = EmptyMap
    /\ log = <<>>
    /\ lastOp = "new"
    /\ issued = 0
    /\ callers = IdleCallers
    /\ capacity = 1
    /\ data = <<>>
    /\ pushed = <<>>
    /\ EngineIdle
    /\ ServicesIdle

\* let severity = self.calculate_severity(z.abs())
CalculateSeverity ==
    /\ Len(calls) < MaxSeverities
    /\ \E z \in ZScores :
         calls' = Append(calls, [z |-> z, severity |-> calculate_severity(RAbs(z))])
    /\ UNCHANGED <<dedupVars, callers, windowVars, driverVars, config, built, detectors,
                   storeVars, states, stats, panicked, threads, detector_stats, serviceVars>>

SpecSeverity == InitSeverity /\ [][CalculateSeverity]_vars

---------------------------------------------------------------------------
(* An engine with every detector on that is fed events through process, is   *)
(* reset, and is then fed the same events again in the same order.           *)
(* `previous` holds the calls of the first run once the engine was reset.    *)

InitReset ==
    /\ enabled = TRUE
    /\ now = 0
    /\ entries = EmptyMap
    /\ twin = EmptyMap
    /\ log = <<>>
    /\ lastOp = "new"
    /\ issued = 0
    /\ callers = IdleCallers
    /\ capacity = 1
    /\ data = <<>>
    /\ pushed = <<>>
    /\ config = AllDetectors
    /\ built = new(AllDetectors).result
    /\ detectors = new(AllDetectors).detectors
    /\ windows = EmptyStore
    /\ baselines = EmptyStore
    /\ states = EmptyStore
    /\ stats = NewEngineStats
    /\ calls = <<>>
    /\ panicked = {}
    /\ threads = <<>>
    /\ previous = None
    /\ trace = <<>>
    /\ detector_stats = NewDetectorStats(detectors)
    /\ ServicesIdle

\* process(event) in the first run
FirstRun == previous = None /\ Process

\* DetectionEngine::reset
Reset ==
    /\ previous = None
    /\ calls # <<>>
    /\ windows' = reset(detectors, windows, baselines, states).windows
    /\ baselines' = reset(detectors, windows, baselines, states).baselines
    /\ states' = reset(detectors, windows, baselines, states).states
    /\ stats' = reset(detectors, windows, baselines, states).stats
    /\ previous' = Some(calls)
    /\ calls' = <<>>
    /\ detector_stats' = NewDetectorStats(detectors)
    /\ UNCHANGED <<dedupVars, callers, windowVars, trace, config, built, detectors,
                   panicked, threads, serviceVars>>

\* process(event) for the next event of the first run, after the reset
Replay ==
    /\ previous # None
    /\ Len(calls) < Len(previous[1])
    /\ Processed(previous[1][Len(calls) + 1].event,
                 process(detectors, config, windows, baselines, states, stats,
                         previous[1][Len(calls) + 1].event, {}))
    /\ UNCHANGED <<dedupVars, callers, windowVars, driverVars, config, built, detectors,
                   threads, detector_stats, serviceVars>>

NextReset == FirstRun \/ Reset \/ Replay

SpecReset == InitReset /\ [][NextReset]_vars

---------------------------------------------------------------------------
(* The engine's three calls side by side: detect, update and process in any  *)
(* order on an engine with all four detectors, and reset.  A detect or       *)
(* process call takes the set of detectors whose detect returns Err for      *)
(* that event.  While the engine has no baseline yet the calls carry the     *)
(* ordinary event and no detector fails; afterwards they carry either event  *)
(* and any of the failing sets.  `calls` holds the record of the latest call *)
(* only, with the number of calls made since construction, the number of     *)
(* detect and process calls since construction or the last reset, and the    *)
(* number of those that returned an anomaly.                                 *)

MaxEngineCalls == 7

\* the detectors that may fail on an event: none, the first, all but the last
FailingSets == { {}, {"zscore"}, {"zscore", "iqr", "mad"} }

\* the engine has learned a baseline of the latency
Warm == StoreKey \in DOMAIN baselines

\* the events of these calls: an ordinary one and, once there is a baseline,
\* one with a latency spike
CallEvents == IF Warm THEN { OrdinaryEvent, SpikeEvent } ELSE { OrdinaryEvent }

\* the sets of failing detectors of these calls
CallFailing == IF Warm THEN FailingSets ELSE { {} }

\* the counts kept with the latest call
Made == IF calls = <<>> THEN 0 ELSE calls[1].n
Detections == IF calls = <<>> THEN 0 ELSE calls[1].detections
Returned == IF calls = <<>> THEN 0 ELSE calls[1].returned

\* the record of a completed detect, update or process call
CountedCall(op, event, failing, result, invoked) ==
    [op |-> op, event |-> event, failing |-> failing, result |-> result,
     invoked |-> invoked, n |-> Made + 1,
     detections |-> Detections + (IF op = "update" THEN 0 ELSE 1),
     returned |-> Returned + (IF op # "update" /\ result # None THEN 1 ELSE 0)]

InitCalls == InitReset

\* the engine's state after a detect call that returned r
Detected(op, event, failing, r) ==
    /\ states' = r.states
    /\ stats' = r.stats
    /\ calls' = <<CountedCall(op, event, failing, r.result, r.invoked)>>

\* the engine's state after an update call that returned r
Updated(r) ==
    /\ windows' = r.windows
    /\ baselines' = r.baselines

\* DetectionEngine::detect(event), the detectors of `failing` returning Err
CallDetect ==
    /\ Made < MaxEngineCalls
    /\ \E event \in CallEvents, failing \in CallFailing :
         Detected("detect", event, failing,
                  engine_detect(detectors, config, baselines, states, stats, event, failing))
    /\ UNCHANGED <<dedupVars, callers, windowVars, driverVars, config, built, detectors,
                   storeVars, panicked, threads, detector_stats, serviceVars>>

\* DetectionEngine::update(event)
CallUpdate ==
    /\ Made < MaxEngineCalls
    /\ \E event \in CallEvents :
         /\ Updated(engine_update(detectors, config, windows, baselines, event))
         /\ calls' = <<CountedCall("update", event, {}, None, <<>>)>>
    /\ UNCHANGED <<dedupVars, callers, windowVars, driverVars, config, built, detectors,
                   states, stats, panicked, threads, detector_stats, serviceVars>>

\* the engine's state after a process call that returned r
ProcessedCall(event, failing, r) ==
    /\ Updated(r)
    /\ Detected("process", event, failing, r)

\* DetectionEngine::process(event), the detectors of `failing` returning Err
CallProcess ==
    /\ Made < MaxEngineCalls
    /\ \E event \in CallEvents, failing \in CallFailing :
         ProcessedCall(event, failing,
                       process(detectors, config, windows, baselines, states, stats, event,
                               failing))
    /\ UNCHANGED <<dedupVars, callers, windowVars, driverVars, config, built, detectors,
                   panicked, threads, detector_stats, serviceVars>>

\* DetectionEngine::reset()
CallReset ==
    /\ Made < MaxEngineCalls
    /\ Updated(reset(detectors, windows, baselines, states))
    /\ states' = reset(detectors, windows, baselines, states).states
    /\ stats' = reset(detectors, windows, baselines, states).stats
    /\ calls' = <<[op |-> "reset", n |-> Made + 1, detections |-> 0, returned |-> 0]>>
    /\ detector_stats' = NewDetectorStats(detectors)
    /\ UNCHANGED <<dedupVars, callers, windowVars, driverVars, config, built, detectors,
                   panicked, threads, serviceVars>>

NextCalls == CallDetect \/ CallUpdate \/ CallProcess \/ CallReset

SpecCalls == InitCalls /\ [][NextCalls]_vars

---------------------------------------------------------------------------
(* The pipeline driver: the body of the loop of start_ingestion_pipeline     *)
(* over the events of a batch, one event per step.  The validator, the       *)
(* storage and the alert transport are collaborators whose outcomes are      *)
(* inputs of the step; the detection engine (all four detectors) and the     *)
(* deduplicator are the ones above.  `trace` holds the collaborator calls    *)
(* made for the latest event, in order, each with its outcome.  All the      *)
(* events arrive within one deduplication window.                            *)

MaxPipelineEvents == 9

\* one collaborator call and its outcome (for should_send: the value returned)
Step(call, ok) == [call |-> call, ok |-> ok]

\* (mutant) the driver gives the event up when its telemetry write failed
pipeline_event_stops_on_write_failure(idle, p, en, map, t, id, valid, tel_ok, anomaly_ok, send_ok) ==
    IF ~valid
    THEN [engine |-> idle, entries |-> map, issued |-> id,
          trace |-> <<Step("validate", FALSE)>>]
    ELSE IF ~tel_ok
    THEN [engine |-> idle, entries |-> map, issued |-> id,
          trace |-> <<Step("validate", TRUE), Step("write_telemetry", FALSE)>>]
    ELSE IF p.result = None
    THEN [engine |-> p, entries |-> map, issued |-> id,
          trace |-> <<Step("validate", TRUE), Step("write_telemetry", tel_ok),
                      Step("process", TRUE)>>]
    ELSE LET d == should_send(en, map, AnomalyEvent(p.result[1], id + 1), t)
         IN  [engine |-> p, entries |-> d.entries, issued |-> id + 1,
              trace |-> <<Step("validate", TRUE), Step("write_telemetry", tel_ok),
                          Step("process", TRUE), Step("write_anomaly", anomaly_ok),
                          Step("should_send", d.ret)>>
                        \o (IF d.ret THEN <<Step("send", send_ok)>> ELSE <<>>)]

\* (mutant) the driver sends every anomaly, whatever should_send returned
pipeline_event_sends_always(idle, p, en, map, t, id, valid, tel_ok, anomaly_ok, send_ok) ==
    IF ~valid
    THEN [engine |-> idle, entries |-> map, issued |-> id,
          trace |-> <<Step("validate", FALSE)>>]
    ELSE IF p.result = None
    THEN [engine |-> p, entries |-> map, issued |-> id,
          trace |-> <<Step("validate", TRUE), Step("write_telemetry", tel_ok),
                      Step("process", TRUE)>>]
    ELSE LET d == should_send(en, map, AnomalyEvent(p.result[1], id + 1), t)
         IN  [engine |-> p, entries |-> d.entries, issued |-> id + 1,
              trace |-> <<Step("validate", TRUE), Step("write_telemetry", tel_ok),
                          Step("process", TRUE), Step("write_anomaly", anomaly_ok),
                          Step("should_send", d.ret), Step("send", send_ok)>>]

\* (mutant) the driver takes the deduplicator's record back when the publish
\* failed
pipeline_event_forgets_failed_send(idle, p, en, map, t, id, valid, tel_ok, anomaly_ok, send_ok) ==
    IF ~valid
    THEN [engine |-> idle, entries |-> map, issued |-> id,
          trace |-> <<Step("validate", FALSE)>>]
    ELSE IF p.result = None
    THEN [engine |-> p, entries |-> map, issued |-> id,
          trace |-> <<Step("validate", TRUE), Step("write_telemetry", tel_ok),
                      Step("process", TRUE)>>]
    ELSE LET d == should_send(en, map, AnomalyEvent(p.result[1], id + 1), t)
         IN  [engine |-> p, entries |-> IF d.ret /\ ~send_ok THEN map ELSE d.entries,
              issued |-> id + 1,
              trace |-> <<Step("validate", TRUE), Step("write_telemetry", tel_ok),
                          Step("process", TRUE), Step("write_anomaly", anomaly_ok),
                          Step("should_send", d.ret)>>
                        \o (IF d.ret THEN <<Step("send", send_ok)>> ELSE <<>>)]

\* the loop body for one event.  idle is the engine's state before the
\* event, p what DetectionEngine::process returns for it, id the number of
\* anomalies raised so far; valid, tel_ok, anomaly_ok and send_ok are the
\* outcomes of validator.validate, storage.write_telemetry,
\* storage.write_anomaly and alerter.send.  The result is the engine's and
\* the deduplicator's state afterwards and the calls made.
pipeline_event(idle, p, en, map, t, id, valid, tel_ok, anomaly_ok, send_ok) ==
    IF ~valid
    THEN [engine |-> idle, entries |-> map, issued |-> id,
          trace |-> <<Step("validate", FALSE)>>]
    ELSE IF p.result = None
    THEN [engine |-> p, entries |-> map, issued |-> id,
          trace |-> <<Step("validate", TRUE), Step("write_telemetry", tel_ok),
                      Step("process", TRUE)>>]
    ELSE LET d == should_send(en, map, AnomalyEvent(p.result[1], id + 1), t)
         IN  [engine |-> p, entries |-> d.entries, issued |-> id + 1,
              trace |-> <<Step("validate", TRUE), Step("write_telemetry", tel_ok),
                          Step("process", TRUE), Step("write_anomaly", anomaly_ok),
                          Step("should_send", d.ret)>>
                        \o (IF d.ret THEN <<Step("send", send_ok)>> ELSE <<>>)]

\* the engine's state as a record
EngineState ==
    [windows |-> windows, baselines |-> baselines, states |-> states, stats |-> stats]

InitPipeline ==
    /\ enabled \in BOOLEAN
    /\ now = 0
    /\ entries = EmptyMap
    /\ twin = EmptyMap
    /\ log = <<>>
    /\ lastOp = "new"
    /\ issued = 0
    /\ callers = IdleCallers
    /\ capacity = 1
    /\ data = <<>>
    /\ pushed = <<>>
    /\ config = AllDetectors
    /\ built = new(AllDetectors).result
    /\ detectors = new(AllDetectors).detectors
    /\ windows = EmptyStore
    /\ baselines = EmptyStore
    /\ states = EmptyStore
    /\ stats = NewEngineStats
    /\ calls = <<>>
    /\ panicked = {}
    /\ threads = <<>>
    /\ previous = <<>>
    /\ trace = <<>>
    /\ detector_stats = NewDetectorStats(detectors)
    /\ ServicesIdle

\* the state after the loop body returned r
Handled(r) ==
    /\ windows' = r.engine.windows
    /\ baselines' = r.engine.baselines
    /\ states' = r.engine.states
    /\ stats' = r.engine.stats
    /\ entries' = r.entries
    /\ issued' = r.issued
    /\ trace' = r.trace
    /\ previous' = IF r.issued # issued THEN Append(previous, r.trace) ELSE previous

\* one iteration of `for event in events`
PipelineEvent ==
    /\ stats.events_processed < MaxPipelineEvents
    /\ \E event \in CallEvents, valid, tel_ok, anomaly_ok, send_ok \in BOOLEAN :
         Handled(pipeline_event(EngineState,
                                process(detectors, config, windows, baselines, states,
                                        stats, event, {}),
                                enabled, entries, now, issued, valid, tel_ok, anomaly_ok,
                                send_ok))
    /\ UNCHANGED <<enabled, now, twin, log, lastOp, callers, windowVars, config,
                   built, detectors, calls, panicked, threads, detector_stats, serviceVars>>

NextPipeline == PipelineEvent

SpecPipeline == InitPipeline /\ [][NextPipeline]_vars

---------------------------------------------------------------------------
(* The webhook sender (webhook.rs): the retry loop of send_with_retry for    *)
(* one alert.  A step is the code between two awaits: one attempt           *)
(* (request.send().await and what follows up to the sleep or the return),    *)
(* or the sleep and the backoff that follows it.  The response of each       *)
(* attempt is an input: an HTTP status, or 0 for a transport error           *)
(* (request.send() returned Err).  Delays are in units of retry_delay_ms.    *)
(* `retry` holds the configuration, the loop's locals, what the call         *)
(* returned, and as history the responses received and the delays slept.     *)

\* largest WebhookConfig.max_retries and RetryConfig.max_attempts
MaxRetries == 3

TransportError == 0

\* the responses an attempt can get
Responses == {TransportError, 200, 204, 404, 408, 429, 500, 501, 502, 503, 504}

\* StatusCode::is_success
is_success(status) == 200 <= status /\ status <= 299

\* WebhookAlerter::is_retryable_status
is_retryable_status(status) == status \in {408, 429, 500, 502, 503, 504}

\* (mutant) the sender retries after every status that is not a success
send_attempt_retries_any_status(max_retries, attempt, response) ==
    IF response = TransportError
    THEN IF attempt >= max_retries THEN "Err" ELSE "retry"
    ELSE IF is_success(response) THEN "Ok"
    ELSE IF attempt < max_retries THEN "retry"
    ELSE "Err"

\* one turn of the loop of send_with_retry, attempt being the number of the
\* attempt just made: return Ok, return an error, or sleep and go round again
send_attempt(max_retries, attempt, response) ==
    IF response = TransportError
    THEN IF attempt >= max_retries THEN "Err" ELSE "retry"
    ELSE IF is_success(response) THEN "Ok"
    ELSE IF is_retryable_status(response) /\ attempt < max_retries THEN "retry"
    ELSE "Err"

\* WebhookConfig::default, with any max_retries
WebhookConfigs ==
    { [max_retries |-> m, retry_delay_ms |-> 1, backoff_multiplier |-> 2] : m \in 0..MaxRetries }

InitWebhook ==
    /\ DetectionIdle
    /\ driver = <<>>
    /\ ingester = <<>>
    /\ ingestion = <<>>
    /\ \E cfg \in WebhookConfigs :
         retry = [config |-> cfg, pc |-> "attempt", attempt |-> 0,
                  delay |-> cfg.retry_delay_ms, result |-> "none",
                  responses |-> <<>>, slept |-> <<>>]

\* request.send().await and the match on its result
WebhookAttempt ==
    /\ retry.pc = "attempt"
    /\ \E response \in Responses :
         LET next == send_attempt(retry.config.max_retries, retry.attempt + 1, response)
         IN  retry' = [retry EXCEPT !.attempt = @ + 1,
                                    !.responses = Append(@, response),
                                    !.pc = IF next = "retry" THEN "sleep" ELSE "done",
                                    !.result = IF next = "retry" THEN "none" ELSE next]
    /\ UNCHANGED <<dedupVars, callers, windowVars, engineVars, driverVars, detector_stats,
                   driver, ingester, ingestion>>

\* tokio::time::sleep(delay).await and the backoff
WebhookSleep ==
    /\ retry.pc = "sleep"
    /\ retry' = [retry EXCEPT !.slept = Append(@, retry.delay),
                              !.delay = @ * retry.config.backoff_multiplier,
                              !.pc = "attempt"]
    /\ UNCHANGED <<dedupVars, callers, windowVars, engineVars, driverVars, detector_stats,
                   driver, ingester, ingestion>>

NextWebhook == WebhookAttempt \/ WebhookSleep

SpecWebhook == InitWebhook /\ [][NextWebhook]_vars

---------------------------------------------------------------------------
(* The RabbitMQ publisher (rabbitmq.rs): the retry loop of                   *)
(* publish_with_retry for one alert.  A step is one attempt                  *)
(* (basic_publish(..).await and the match on its result) or the sleep and    *)
(* the backoff that follows it.  Whether an attempt succeeds is an input.    *)
(* Delays are small whole numbers of milliseconds and the multiplier is a    *)
(* ratio of small integers, so that (delay as f64 * multiplier) as u64 is    *)
(* the product rounded down.  Every await is taken to complete.              *)

\* largest RetryConfig.initial_delay_ms
MaxDelay == 3

\* (mutant) the publisher gives up one attempt late
publish_attempt_one_more(max_attempts, attempt, ok) ==
    IF ok THEN "Ok"
    ELSE IF attempt > max_attempts THEN "Err"
    ELSE "retry"

\* one turn of the loop of publish_with_retry, attempt being the number of
\* the attempt just made: return Ok, return an error, or sleep and go round
publish_attempt(max_attempts, attempt, ok) ==
    IF ok THEN "Ok"
    ELSE IF attempt >= max_attempts THEN "Err"
    ELSE "retry"

\* the exponential backoff: the next delay
backoff(delay, multiplier, max_delay_ms) ==
    Min((delay * multiplier.num) \div multiplier.den, max_delay_ms)

\* the retry configurations: any number of attempts, multipliers below, at
\* and above 1, initial delays below and above the maximum delay
RetryConfigs ==
    [max_attempts : 0..MaxRetries, initial_delay_ms : 1..MaxDelay,
     backoff_multiplier : {Rat(1, 2), FromInt(1), Rat(3, 2), FromInt(2)},
     max_delay_ms : {2, 5}]

InitRabbit ==
    /\ DetectionIdle
    /\ driver = <<>>
    /\ ingester = <<>>
    /\ ingestion = <<>>
    /\ \E cfg \in RetryConfigs :
         retry = [config |-> cfg, pc |-> "attempt", attempt |-> 0,
                  delay |-> cfg.initial_delay_ms, result |-> "none",
                  responses |-> <<>>, slept |-> <<>>]

\* basic_publish(..).await and the match on its result
RabbitAttempt ==
    /\ retry.pc = "attempt"
    /\ \E ok \in BOOLEAN :
         LET next == publish_attempt(retry.config.max_attempts, retry.attempt + 1, ok)
         IN  retry' = [retry EXCEPT !.attempt = @ + 1,
                                    !.responses = Append(@, ok),
                                    !.pc = IF next = "retry" THEN "sleep" ELSE "done",
                                    !.result = IF next = "retry" THEN "none" ELSE next]
    /\ UNCHANGED <<dedupVars, callers, windowVars, engineVars, driverVars, detector_stats,
                   driver, ingester, ingestion>>

\* tokio::time::sleep(delay).await and the backoff
RabbitSleep ==
    /\ retry.pc = "sleep"
    /\ retry' = [retry EXCEPT !.slept = Append(@, retry.delay),
                              !.delay = backoff(@, retry.config.backoff_multiplier,
                                                retry.config.max_delay_ms),
                              !.pc = "attempt"]
    /\ UNCHANGED <<dedupVars, callers, windowVars, engineVars, driverVars, detector_stats,
                   driver, ingester, ingestion>>

NextRabbit == RabbitAttempt \/ RabbitSleep

\* the task that runs the publisher is polled until it returns
SpecRabbit == InitRabbit /\ [][NextRabbit]_vars /\ WF_vars(NextRabbit)

---------------------------------------------------------------------------
(* The Kafka ingester (kafka.rs): start, stop, next_batch and health_check   *)
(* called in any order by the one owner of the ingester (all but             *)
(* health_check take &mut self).  The collaborator's answers are inputs:     *)
(* whether subscribe and fetch_metadata succeed, and for next_batch what     *)
(* each consumer.recv() yields before the deadline: a message that parses    *)
(* ("event"), one that does not ("bad"), a consumer error ("error"), or      *)
(* nothing until the deadline ("timeout"; also when the inputs run out).     *)
(* `ingester` holds the running flag, batch_size, and the latest call with   *)
(* what it returned.                                                         *)

\* largest batch_size
MaxBatch == 2
\* largest number of messages the consumer yields during one next_batch
MaxMessages == 3

Received == {"event", "bad", "error", "timeout"}

\* the sequences of at most n answers of consumer.recv()
RECURSIVE RecvSeqs(_)
RecvSeqs(n) ==
    IF n = 0 THEN {<<>>}
    ELSE RecvSeqs(n - 1)
         \cup {Append(s, m) : s \in {t \in RecvSeqs(n - 1) : Len(t) = n - 1}, m \in Received}

\* (mutant) the loop of next_batch stops one event late
RECURSIVE next_batch_loop_one_more(_, _, _)
next_batch_loop_one_more(batch_size, held, msgs) ==
    IF held > batch_size \/ msgs = <<>> \/ Head(msgs) = "timeout"
    THEN [ret |-> "Ok", len |-> held]
    ELSE IF Head(msgs) = "error" THEN [ret |-> "Err(connection)", len |-> 0]
    ELSE next_batch_loop_one_more(batch_size,
                                  IF Head(msgs) = "event" THEN held + 1 ELSE held, Tail(msgs))

\* the loop of next_batch with held events in the batch and msgs still to come
RECURSIVE next_batch_loop(_, _, _)
next_batch_loop(batch_size, held, msgs) ==
    IF held >= batch_size \/ msgs = <<>> \/ Head(msgs) = "timeout"
    THEN [ret |-> "Ok", len |-> held]
    ELSE IF Head(msgs) = "error" THEN [ret |-> "Err(connection)", len |-> 0]
    ELSE next_batch_loop(batch_size, IF Head(msgs) = "event" THEN held + 1 ELSE held, Tail(msgs))

\* KafkaIngester::next_batch
next_batch(running, batch_size, msgs) ==
    IF ~running THEN [ret |-> "Err(internal)", len |-> 0]
    ELSE next_batch_loop(batch_size, 0, msgs)

\* the record of a call: the operation, the running flag it met, what it
\* returned and, for next_batch, the size of the batch and what the consumer
\* had to offer
IngesterCall(op, was_running, ret, size, msgs) ==
    [op |-> op, was_running |-> was_running, ret |-> ret, len |-> size, received |-> msgs]

InitKafka ==
    /\ DetectionIdle
    /\ driver = <<>>
    /\ retry = <<>>
    /\ ingestion = <<>>
    /\ \E size \in 0..MaxBatch :
         ingester = [running |-> FALSE, batch_size |-> size,
                     last |-> IngesterCall("new", FALSE, "Ok", 0, <<>>)]

\* KafkaIngester::start
KafkaStart ==
    /\ \E subscribed \in BOOLEAN :
         ingester' =
           IF ingester.running
           THEN [ingester EXCEPT !.last = IngesterCall("start", TRUE, "Err(already_exists)", 0, <<>>)]
           ELSE IF ~subscribed
           THEN [ingester EXCEPT !.last = IngesterCall("start", FALSE, "Err(connection)", 0, <<>>)]
           ELSE [ingester EXCEPT !.running = TRUE,
                                 !.last = IngesterCall("start", FALSE, "Ok", 0, <<>>)]
    /\ UNCHANGED <<dedupVars, callers, windowVars, engineVars, driverVars, detector_stats,
                   driver, retry, ingestion>>

\* KafkaIngester::stop
KafkaStop ==
    /\ ingester' = [ingester EXCEPT !.running = FALSE,
                                    !.last = IngesterCall("stop", ingester.running, "Ok", 0, <<>>)]
    /\ UNCHANGED <<dedupVars, callers, windowVars, engineVars, driverVars, detector_stats,
                   driver, retry, ingestion>>

\* KafkaIngester::next_batch
KafkaNextBatch ==
    /\ \E msgs \in RecvSeqs(MaxMessages) :
         ingester' =
           [ingester EXCEPT !.last =
              IngesterCall("next_batch", ingester.running,
                           next_batch(ingester.running, ingester.batch_size, msgs).ret,
                           next_batch(ingester.running, ingester.batch_size, msgs).len, msgs)]
    /\ UNCHANGED <<dedupVars, callers, windowVars, engineVars, driverVars, detector_stats,
                   driver, retry, ingestion>>

\* KafkaIngester::health_check
KafkaHealthCheck ==
    /\ \E fetched \in BOOLEAN :
         ingester' =
           [ingester EXCEPT !.last =
              IngesterCall("health_check", ingester.running,
                           IF ~ingester.running THEN "Err(internal)"
                           ELSE IF fetched THEN "Ok" ELSE "Err(connection)", 0, <<>>)]
    /\ UNCHANGED <<dedupVars, callers, windowVars, engineVars, driverVars, detector_stats,
                   driver, retry, ingestion>>

NextKafka == KafkaStart \/ KafkaStop \/ KafkaNextBatch \/ KafkaHealthCheck

SpecKafka == InitKafka /\ [][NextKafka]_vars

---------------------------------------------------------------------------
(* The ingestion pipeline (pipeline.rs): one unbounded channel, the          *)
(* pipeline's own sender in `tx`, clones of it handed out by sender(), and   *)
(* config.workers worker tasks that loop on rx.recv().  recv() yields an     *)
(* event while the channel holds one, and an error once the channel is       *)
(* empty and every sender, the pipeline's and all clones, has been dropped;  *)
(* otherwise it stays pending.  `ingestion` holds the pipeline's fields, the *)
(* number of clones producers hold, the number of events in the channel,     *)
(* each worker task's position and the position of stop().                   *)

\* largest config.workers
MaxWorkers == 2
\* largest number of sender clones held by producers at a time
MaxClones == 2
\* largest number of events waiting in the channel
MaxQueue == 2

\* every sender of the channel is gone
Disconnected(p) == ~p.tx /\ p.clones = 0

\* IngestionPipeline::new
InitIngestion ==
    /\ DetectionIdle
    /\ driver = <<>>
    /\ retry = <<>>
    /\ ingester = <<>>
    /\ \E n \in 0..MaxWorkers :
         ingestion = [workers |-> n, tx |-> TRUE, rx |-> TRUE, clones |-> 0, queue |-> 0,
                      tasks |-> <<>>, worker_handles |-> <<>>, stop |-> "idle",
                      ret |-> "none"]

\* IngestionPipeline::start: takes the receiver and spawns the workers
PipelineStart ==
    /\ ingestion.stop # "joining"
    /\ ingestion' =
         IF ~ingestion.rx THEN [ingestion EXCEPT !.ret = "start:Err"]
         ELSE [ingestion EXCEPT !.rx = FALSE,
                                !.tasks = [w \in 1..ingestion.workers |-> "recv"],
                                !.worker_handles = [w \in 1..ingestion.workers |-> w],
                                !.ret = "start:Ok"]
    /\ UNCHANGED <<dedupVars, callers, windowVars, engineVars, driverVars, detector_stats,
                   driver, retry, ingester>>

\* IngestionPipeline::sender: a producer obtains a clone of the sender
PipelineSender ==
    /\ ingestion.clones < MaxClones
    /\ ingestion' =
         IF ~ingestion.tx THEN [ingestion EXCEPT !.ret = "sender:Err"]
         ELSE [ingestion EXCEPT !.clones = @ + 1, !.ret = "sender:Ok"]
    /\ UNCHANGED <<dedupVars, callers, windowVars, engineVars, driverVars, detector_stats,
                   driver, retry, ingester>>

\* a producer sends an event through its clone
ProducerSend ==
    /\ ingestion.clones > 0
    /\ ingestion.queue < MaxQueue
    /\ ingestion' = [ingestion EXCEPT !.queue = @ + 1]
    /\ UNCHANGED <<dedupVars, callers, windowVars, engineVars, driverVars, detector_stats,
                   driver, retry, ingester>>

\* a producer drops its clone
ProducerDrop ==
    /\ ingestion.clones > 0
    /\ ingestion' = [ingestion EXCEPT !.clones = @ - 1]
    /\ UNCHANGED <<dedupVars, callers, windowVars, engineVars, driverVars, detector_stats,
                   driver, retry, ingester>>

\* one turn of the loop of worker_task once rx.recv() is ready: an event is
\* handled and the loop goes round, an error breaks out of the loop
worker_recv(p, w) ==
    IF p.queue > 0 THEN [p EXCEPT !.queue = @ - 1]
    ELSE [p EXCEPT !.tasks[w] = IF Disconnected(p) THEN "done" ELSE @]

\* worker w's rx.recv() is ready
WorkerRecv(w) ==
    /\ w \in DOMAIN ingestion.tasks
    /\ ingestion.tasks[w] = "recv"
    /\ ingestion.queue > 0 \/ Disconnected(ingestion)
    /\ ingestion' = worker_recv(ingestion, w)
    /\ UNCHANGED <<dedupVars, callers, windowVars, engineVars, driverVars, detector_stats,
                   driver, retry, ingester>>

\* IngestionPipeline::stop up to its first await: drops the pipeline's sender
PipelineStop ==
    /\ ingestion.stop # "joining"
    /\ ingestion' = [ingestion EXCEPT !.tx = FALSE, !.stop = "joining", !.ret = "none"]
    /\ UNCHANGED <<dedupVars, callers, windowVars, engineVars, driverVars, detector_stats,
                   driver, retry, ingester>>

\* IngestionPipeline::stop: the handle awaited is ready, or none is left
PipelineStopJoin ==
    /\ ingestion.stop = "joining"
    /\ IF ingestion.worker_handles = <<>>
       THEN ingestion' = [ingestion EXCEPT !.stop = "returned", !.ret = "stop:Ok"]
       ELSE /\ ingestion.tasks[Head(ingestion.worker_handles)] = "done"
            /\ ingestion' = [ingestion EXCEPT !.worker_handles = Tail(@)]
    /\ UNCHANGED <<dedupVars, callers, windowVars, engineVars, driverVars, detector_stats,
                   driver, retry, ingester>>

NextIngestion ==
    \/ PipelineStart
    \/ PipelineSender
    \/ ProducerSend
    \/ ProducerDrop
    \/ \E w \in 1..MaxWorkers : WorkerRecv(w)
    \/ PipelineStop
    \/ PipelineStopJoin

\* the runtime polls every spawned worker and the caller of stop whenever
\* they are ready; nothing makes a producer send or drop its clone
SpecIngestion ==
    /\ InitIngestion
    /\ [][NextIngestion]_vars
    /\ \A w \in 1..MaxWorkers : WF_vars(WorkerRecv(w))
    /\ WF_vars(PipelineStopJoin)

---------------------------------------------------------------------------
(* The pipeline driver (main.rs): the loop of start_ingestion_pipeline, and  *)
(* the select! of Sentinel::run that drops it when the shutdown signal       *)
(* arrives.  The driver is one future; `driver.pc` is the await it is        *)
(* pending on, and a step is the code it runs from the completion of that    *)
(* await to the next one.  What the collaborators answer is an input of the  *)
(* step: the batch pulled (an event is TRUE when it passes validation), the  *)
(* results of the storage writes and of detection, the deduplicator's        *)
(* answer, and whether basic_publish succeeded.  `driver` also holds the     *)
(* events of the batch not yet through the loop body (the first is the one   *)
(* in hand), the size of the batch, how many of its events went through the  *)
(* loop body, the kinds of failure logged since the pull, whether            *)
(* should_send recorded the anomaly in hand, and the number of publish       *)
(* attempts made for it.                                                     *)

\* what the await the driver is pending on may complete with
Outcome(ok, events, result, fresh) ==
    [ok |-> ok, events |-> events, result |-> result, fresh |-> fresh]

RECURSIVE Batches(_)
Batches(n) ==
    IF n = 0 THEN {<<>>}
    ELSE Batches(n - 1)
         \cup {Append(b, v) : b \in {c \in Batches(n - 1) : Len(c) = n - 1}, v \in BOOLEAN}

Outcomes(pc) ==
    CASE pc = "next_batch" ->
           {Outcome(FALSE, <<>>, "none", FALSE)}
           \cup {Outcome(TRUE, b, "none", FALSE) : b \in Batches(MaxBatch)}
      [] pc = "process" ->
           {Outcome(r # "err", <<>>, r, FALSE) : r \in {"anomaly", "none", "err"}}
      [] pc = "write_anomaly" ->
           {Outcome(ok, <<>>, "none", fresh) : ok \in BOOLEAN, fresh \in BOOLEAN}
      [] pc \in {"write_telemetry", "basic_publish"} ->
           {Outcome(ok, <<>>, "none", FALSE) : ok \in BOOLEAN}
      [] OTHER -> {Outcome(TRUE, <<>>, "none", FALSE)}

\* the head of the for loop: events that fail validation are counted and
\* skipped, the first valid one goes to write_telemetry, and when none is
\* left the loop pulls again
RECURSIVE next_event(_, _)
next_event(d, events) ==
    IF events = <<>> THEN [d EXCEPT !.pc = "next_batch", !.batch = <<>>]
    ELSE IF ~Head(events)
    THEN next_event([d EXCEPT !.failures = @ \cup {"validation"}, !.handled = @ + 1],
                    Tail(events))
    ELSE [d EXCEPT !.pc = "write_telemetry", !.batch = events,
                   !.recorded = FALSE, !.attempt = 0]

\* the event in hand reached the end of the loop body
event_done(d) == next_event([d EXCEPT !.handled = @ + 1], Tail(d.batch))

\* (mutant) a detection error is returned from the driver
after_process_returns_error(d, o) ==
    IF o.result = "anomaly" THEN [d EXCEPT !.pc = "write_anomaly"]
    ELSE IF o.result = "none" THEN event_done(d)
    ELSE [d EXCEPT !.pc = "exited"]

\* the match on detection_engine.process(&event).await
after_process(d, o) ==
    IF o.result = "anomaly" THEN [d EXCEPT !.pc = "write_anomaly"]
    ELSE IF o.result = "none" THEN event_done(d)
    ELSE event_done([d EXCEPT !.failures = @ \cup {"detection"}])

\* write_anomaly completed: its error is logged, then should_send decides;
\* when it says yes the anomaly is recorded and alerter.send runs up to its
\* first basic_publish
after_write_anomaly(d, o) ==
    LET logged == IF o.ok THEN d ELSE [d EXCEPT !.failures = @ \cup {"storage"}]
    IN  IF o.fresh
        THEN [logged EXCEPT !.recorded = TRUE, !.attempt = 1, !.pc = "basic_publish"]
        ELSE event_done(logged)

\* basic_publish completed inside alerter.send
after_basic_publish(d, o) ==
    LET next == publish_attempt(d.max_attempts, d.attempt, o.ok)
    IN  IF next = "Ok" THEN event_done(d)
        ELSE IF next = "Err" THEN event_done([d EXCEPT !.failures = @ \cup {"publish"}])
        ELSE [d EXCEPT !.pc = "publish_sleep"]

\* the code the driver runs when the await it is pending on completes with o
driver_next(d, o) ==
    CASE d.pc = "next_batch" ->
           IF o.ok
           THEN next_event([d EXCEPT !.size = Len(o.events), !.handled = 0,
                                     !.failures = {}], o.events)
           ELSE [d EXCEPT !.pc = "sleep", !.size = 0, !.handled = 0,
                          !.failures = {"ingestion"}]
      [] d.pc = "sleep" -> [d EXCEPT !.pc = "next_batch"]
      [] d.pc = "write_telemetry" ->
           [d EXCEPT !.pc = "process",
                     !.failures = IF o.ok THEN @ ELSE @ \cup {"storage"}]
      [] d.pc = "process" -> after_process(d, o)
      [] d.pc = "write_anomaly" -> after_write_anomaly(d, o)
      [] d.pc = "basic_publish" -> after_basic_publish(d, o)
      [] d.pc = "publish_sleep" -> [d EXCEPT !.pc = "basic_publish", !.attempt = @ + 1]

\* the future returned by start_ingestion_pipeline when first polled: the
\* ingester was created and the loop is at its first next_batch
InitDriver ==
    /\ DetectionIdle
    /\ retry = <<>>
    /\ ingester = <<>>
    /\ ingestion = <<>>
    /\ \E n \in 0..MaxRetries :
         driver = [pc |-> "next_batch", batch |-> <<>>, size |-> 0, handled |-> 0,
                   failures |-> {}, recorded |-> FALSE, attempt |-> 0,
                   max_attempts |-> n, dropped_at |-> "none"]

Running == driver.pc \notin {"dropped", "exited"}

\* the await the driver is pending on completes
DriverStep ==
    /\ Running
    /\ \E o \in Outcomes(driver.pc) : driver' = driver_next(driver, o)
    /\ UNCHANGED <<dedupVars, callers, windowVars, engineVars, driverVars, detector_stats,
                   retry, ingester, ingestion>>

\* Sentinel::run: the shutdown branch of select! completes and the driver's
\* future is dropped at the await it is pending on
Shutdown ==
    /\ Running
    /\ driver' = [driver EXCEPT !.pc = "dropped", !.dropped_at = driver.pc]
    /\ UNCHANGED <<dedupVars, callers, windowVars, engineVars, driverVars, detector_stats,
                   retry, ingester, ingestion>>

NextDriver == DriverStep \/ Shutdown

\* run() polls the driver whenever it is ready and every await of the loop
\* completes; nothing obliges the shutdown signal to arrive
SpecDriver == InitDriver /\ [][NextDriver]_vars /\ WF_vars(DriverStep)

---------------------------------------------------------------------------
(* Reading the history *)

\* the calls made for signature sig
CallsFor(sig) == {i \in DOMAIN log : log[i].sig = sig}

\* the call for the same signature that precedes call i, 0 when there is none
PrevCall(i) ==
    LET earlier == {j \in CallsFor(log[i].sig) : j < i}
    IN  IF earlier = {} THEN 0 ELSE CHOOSE j \in earlier : \A k \in earlier : k <= j

\* call i is made within the window W of the previous call for its signature
WithinW(i) ==
    /\ PrevCall(i) # 0
    /\ log[i].time - log[PrevCall(i)].time <= WindowTicks

\* the calls for sig form one run: each is within W of the one before
InRun(sig) == \A i \in CallsFor(sig) : PrevCall(i) # 0 => WithinW(i)

\* the number of calls that returned true
TrueReturns == Cardinality({i \in DOMAIN log : log[i].ret})

---------------------------------------------------------------------------
(* Claims *)

\* C1: with deduplication enabled, the first call for a signature returns
\* true, and every call made within W of the previous call for the same
\* signature returns false, however many such calls follow one another.
C1_FirstTrueThenSuppressed ==
    enabled =>
        \A i \in DOMAIN log :
            /\ PrevCall(i) = 0 => log[i].ret
            /\ WithinW(i) => ~log[i].ret

\* a run of three calls for one signature that lasts longer than W
C1_Witness ==
    /\ enabled
    /\ \E sig \in EventSigs :
         /\ InRun(sig)
         /\ Cardinality(CallsFor(sig)) >= 3
         /\ \E i, j \in CallsFor(sig) :
              /\ PrevCall(i) = 0
              /\ log[j].time - log[i].time > WindowTicks
              /\ ~log[j].ret

\* C2: of two should_send calls for one signature that overlap in time and
\* both found no entry, exactly one returns true; and no two calls for one
\* signature that return true are within W of each other.
C2_OneTruePerSignature ==
    \A i, j \in DOMAIN log :
        (enabled /\ i < j /\ log[i].sig = log[j].sig) =>
            /\ (log[j].began < i /\ log[i].before = NoEntry /\ log[j].before = NoEntry)
                   => (log[i].ret # log[j].ret)
            /\ (log[i].ret /\ log[j].ret) => log[j].time - log[i].time > WindowTicks

\* C3: a call made strictly later than last_seen + W returns true and leaves
\* a fresh entry (count 1, last_seen the time of the call).
C3_ExpiredAfterW ==
    enabled =>
        \A i \in DOMAIN log :
            (log[i].before # NoEntry /\ log[i].time > log[i].before.last_seen + WindowTicks)
                => /\ log[i].ret
                   /\ (i = Len(log) /\ lastOp = "should_send")
                          => EntryOf(entries, log[i].sig) = NewEntry(log[i].alert_id, log[i].time)

\* C4: a call made within W of the previous call for its signature adds one
\* to the count, appends the alert id and sets last_seen to the call time; N
\* calls for one signature inside one window leave total_signatures = 1 and
\* total_deduplicated = N - 1.
C4_SuppressedCallCounts ==
    (enabled /\ log # <<>>) =>
        LET n == Len(log)
            r == log[n]
        IN  /\ (lastOp = "should_send" /\ WithinW(n)) =>
                  /\ ~r.ret
                  /\ EntryOf(entries, r.sig) =
                        [last_seen |-> r.time, count |-> r.before.count + 1,
                         alert_ids |-> Append(r.before.alert_ids, r.alert_id)]
            /\ (CallsFor(r.sig) = DOMAIN log /\ InRun(r.sig) /\ now - r.time <= WindowTicks) =>
                  /\ get_stats(entries).total_signatures = 1
                  /\ get_stats(entries).total_deduplicated = n - 1

\* three calls for one signature in one run, the last one suppressed
C4_Witness ==
    /\ enabled
    /\ Len(log) >= 3
    /\ lastOp = "should_send"
    /\ CallsFor(log[1].sig) = DOMAIN log
    /\ InRun(log[1].sig)
    /\ WithinW(Len(log))
    /\ get_stats(entries).total_deduplicated = 2

\* C5: every should_send call returns what it returns on a deduplicator
\* that receives the same calls at the same times and is never cleaned.
C5_CleanupInvisible == \A i \in DOMAIN log : log[i].ret = log[i].twin_ret

\* a call for a signature seen before finds its entry removed by cleanup
C5_Witness ==
    /\ enabled
    /\ \E i \in DOMAIN log : PrevCall(i) # 0 /\ log[i].before = NoEntry

\* C6 as stated: the total suppressed count is the number of calls minus the
\* number of calls that returned true, whatever the calls.
C6_SuppressedIsCallsMinusTrue ==
    enabled => get_stats(entries).total_deduplicated = Len(log) - TrueReturns

\* the calls get_stats still counts as suppressed: those that returned false,
\* with no later call for the signature returning true, whose entry is present
SurfacedSuppressed ==
    {j \in DOMAIN log :
        /\ ~log[j].ret
        /\ KeyOf(log[j].sig) \in DOMAIN entries
        /\ \A i \in CallsFor(log[j].sig) : i > j => ~log[i].ret}

\* C6 amended: the total suppressed count is the number of calls minus the
\* number that returned true, counting for each signature only the calls
\* from its latest true-returning call on, and only the signatures whose
\* entry cleanup has not removed.
C6_SuppressedSinceLastSend ==
    enabled => get_stats(entries).total_deduplicated = Cardinality(SurfacedSuppressed)

\* an entry that had suppressed an alert is reset by a call after expiry
C6_Witness ==
    /\ enabled
    /\ \E i \in DOMAIN log : log[i].ret /\ log[i].before.count >= 2

\* C7: with deduplication disabled every call returns true and the map stays
\* as constructed: entry_count and get_stats do not change.
C7_DisabledTouchesNothing ==
    ~enabled =>
        /\ \A i \in DOMAIN log : log[i].ret
        /\ entries = EmptyMap
        /\ entry_count(entries) = 0
        /\ get_stats(entries) = get_stats(EmptyMap)

\* two calls were made with deduplication disabled
C7_Witness == ~enabled /\ Len(log) >= 2 /\ lastOp = "should_send"

\* C8: a should_send call leaves the entry of every signature other than its
\* own as it was, and the first call for a signature returns true whatever
\* other signatures hold.
C8_OtherSignaturesUntouched ==
    /\ [][(lastOp' = "should_send" /\ Len(log') > Len(log)) =>
            \A sig \in EventSigs \ {log'[Len(log')].sig} :
                EntryOf(entries', sig) = EntryOf(entries, sig)]_vars
    /\ [](enabled => \A i \in DOMAIN log : PrevCall(i) = 0 => log[i].ret)

\* anomalies that differ only in severity, and only in type, were all sent
C8_Witness ==
    /\ enabled
    /\ \E i, j, k \in DOMAIN log :
         /\ log[i].sig = BaseSig
         /\ log[j].sig = [BaseSig EXCEPT !.severity = "Critical"]
         /\ log[k].sig = [BaseSig EXCEPT !.anomaly_type = "CostAnomaly"]
         /\ log[i].ret /\ log[j].ret /\ log[k].ret
         /\ entry_count(entries) = 3

\* last_seen is older than the window W at clock t
OlderThanW(entry, t) == t - entry.last_seen > WindowTicks

\* C9: right after cleanup_expired no entry older than W remains, and every
\* entry not older than W is still there with its count.
C9_CleanupRemovesExactlyTheOld ==
    [][lastOp' = "cleanup_expired" =>
          /\ \A k \in DOMAIN entries' : ~OlderThanW(entries'[k], now')
          /\ \A k \in DOMAIN entries :
                ~OlderThanW(entries[k], now) =>
                    (k \in DOMAIN entries' /\ entries'[k].count = entries[k].count)]_vars

\* C10: len() <= capacity after every push and clear, for every capacity >= 1.
C10_WindowBound == len(data) <= capacity

\* more values were pushed than the window holds
C10_Witness == Len(pushed) > capacity /\ is_full(data, capacity) /\ capacity >= 2

\* C11: after pushing the sequence `pushed` into a fresh window of capacity
\* c >= 1, data() is the last min(|pushed|, c) elements of `pushed` in
\* insertion order.
C11_Fifo ==
    capacity >= 1 =>
        data = SubSeq(pushed, Len(pushed) - Min(Len(pushed), capacity) + 1, Len(pushed))

\* a full window of capacity >= 2 took two more pushes, and the values it
\* dropped differ from the ones it holds
C11_Witness ==
    /\ capacity >= 2
    /\ Len(pushed) >= capacity + 2
    /\ pushed[1] # pushed[Len(pushed)]
    /\ pushed[2] # data[1]
    /\ data[1] # data[Len(data)]

\* C12: an engine is never built with a window capacity below 1 (construction
\* returns a configuration error instead), so no window of capacity 0 is
\* ever pushed to.
C12_WindowCapacityChecked ==
    /\ (built # "none" /\ config.baseline_window_size < 1) => built = "Err"
    /\ windows # EmptyStore => config.baseline_window_size >= 1
    /\ panicked = {}

\* the detectors a configuration enables
EnabledDetectors(cfg) ==
    (IF cfg.enable_zscore THEN {"zscore"} ELSE {})
    \cup (IF cfg.enable_iqr THEN {"iqr"} ELSE {})
    \cup (IF cfg.enable_mad THEN {"mad"} ELSE {})
    \cup (IF cfg.enable_cusum THEN {"cusum"} ELSE {})

\* C13: DetectionEngine::new returns an error and no engine when no detector
\* is enabled; otherwise it succeeds and the engine holds exactly the enabled
\* detectors, each once.
C13_NoDetectorsRejected ==
    built # "none" =>
        IF EnabledDetectors(config) = {}
        THEN built = "Err" /\ detectors = <<>> /\ calls = <<>>
        ELSE /\ built = "Ok"
             /\ {detectors[i] : i \in DOMAIN detectors} = EnabledDetectors(config)
             /\ Len(detectors) = Cardinality(EnabledDetectors(config))

\* new was called with every detector disabled
C13_Witness == built = "Err" /\ EnabledDetectors(config) = {}

\* the latest engine call
LastCall == calls[Len(calls)]

\* the baseline key an anomaly was found on
AnomalyKey(a) == [service |-> a.service_name, model |-> a.model, metric |-> a.metric]

\* the three metric keys of an event, each with the event's value
EventMetrics(event) ==
    { <<latency(event.service_name, event.model), event.latency_ms>>,
      <<tokens(event.service_name, event.model), event.total_tokens>>,
      <<cost(event.service_name, event.model), event.cost_usd>> }

\* C14: the engine consults its detectors in the order zscore, iqr, mad,
\* cusum and returns the first anomaly: the detectors invoked for an event
\* are a prefix of the list, all but the last of them found nothing, and an
\* event on which an earlier detector fires leaves the CUSUM accumulators
\* as they were.
C14_FirstAnomalyShortCircuits ==
    [][Len(calls') > Len(calls) =>
         LET c == calls'[Len(calls')]
             n == Len(c.invoked)
         IN  /\ c.invoked = SubSeq(detectors, 1, n)
             /\ \A i \in 1..(n - 1) :
                   detector_detect(detectors[i], config, baselines, states, c.event).result = None
             /\ c.result = None => n = Len(detectors)
             /\ c.result # None =>
                   /\ n >= 1
                   /\ c.result = detector_detect(detectors[n], config, baselines,
                                                 states, c.event).result
                   /\ c.invoked[n] # "cusum" => states' = states
             /\ \A i, j \in DOMAIN detectors :
                   i < j => \E a, b \in 1..4 :
                               /\ a < b
                               /\ detectors[i] = <<"zscore", "iqr", "mad", "cusum">>[a]
                               /\ detectors[j] = <<"zscore", "iqr", "mad", "cusum">>[b]]_vars

\* the sixth event, for which the cost baseline was already valid, was
\* flagged by a detector ahead of cusum, and cusum was not invoked for it
C14_Witness ==
    /\ Len(calls) = 6
    /\ LastCall.result # None
    /\ LastCall.result[1].detection_method # "Cusum"
    /\ Len(LastCall.invoked) < Len(detectors)
    /\ detectors[Len(detectors)] = "cusum"
    /\ has_valid_baseline(baselines, cost("svc-A", "gpt-4"))

\* C15: with continuous learning on, a process call that returns an anomaly
\* has folded the event in: each metric window of the event ends with the
\* event's value, and the snapshot of the anomaly's key is the baseline of
\* the window that contains it.
C15_AnomalyStillLearned ==
    (calls # <<>> /\ config.continuous_learning /\ LastCall.result # None) =>
        /\ \A m \in EventMetrics(LastCall.event) :
              /\ m[1] \in DOMAIN windows
              /\ windows[m[1]] # <<>>
              /\ windows[m[1]][Len(windows[m[1]])] = m[2]
        /\ get(baselines, AnomalyKey(LastCall.result[1]))
              = Some(from_data(windows[AnomalyKey(LastCall.result[1])]))

\* process returned an anomaly for a latency spike
C15_Witness ==
    /\ calls # <<>>
    /\ config.continuous_learning
    /\ LastCall.result # None
    /\ LastCall.result[1].metric = "latency_ms"
    /\ LastCall.event.latency_ms = 100

\* C16: the verdict of process(e) is the one the detectors give on the
\* snapshots as they were before e was folded in.
C16_VerdictFromOldBaselines ==
    [][Len(calls') > Len(calls) =>
         LET c == calls'[Len(calls')]
         IN  c.result = consult(detectors, config, baselines, states, c.event, <<>>, {}).result]_vars

\* process found nothing for an event that the snapshots it left behind
\* would flag
C16_Witness ==
    /\ calls # <<>>
    /\ LastCall.result = None
    /\ ~LastCall.panic
    /\ consult(detectors, config, baselines, states, LastCall.event, <<>>, {}).result # None

RECURSIVE PushedValues(_, _)
PushedValues(key, n) ==
    IF n = 0 THEN <<>>
    ELSE LET ps == SelectSeq(engine_pushes(detectors, config, calls[n].event),
                             LAMBDA p : p[1] = key)
         IN  PushedValues(key, n - 1) \o [i \in DOMAIN ps |-> ps[i][2]]

\* the keys of the one service and model in play
AllKeys == {latency("svc-A", "gpt-4"), tokens("svc-A", "gpt-4"), cost("svc-A", "gpt-4")}

C19_StoreOpsTotal == "update" \notin panicked

\* C20: no detect call panics, whatever clear and clear_all do meanwhile.
C20_DetectNeverPanics == "detect" \notin panicked

\* the values the first n update calls pushed to key, in lock order
ValuesTo(key, n) ==
    LET cs == SelectSeq(SubSeq(calls, 1, n), LAMBDA c : c.key = key)
    IN  [i \in DOMAIN cs |-> cs[i].value]

\* the last c elements of S, all of S when it has fewer
LastC(S, c) == SubSeq(S, Len(S) - Min(Len(S), c) + 1, Len(S))

\* snapshot is the baseline of a full window that key's window was at the end
\* of the push of one of the update calls made so far
OfSomeFullWindow(snapshot, key) ==
    \E n \in 1..Len(calls) :
        /\ calls[n].key = key
        /\ Len(ValuesTo(key, n)) >= config.baseline_window_size
        /\ snapshot = from_data(LastC(ValuesTo(key, n), config.baseline_window_size))

\* C21: update calls on one key are serialized.  The key's window is the
\* result of applying the calls made for that key, and no others, in the
\* order in which they took the lock; every snapshot in the store, and every
\* snapshot a reader got, is the baseline of a full window that existed at
\* the end of one of those calls' push; once no update of the key is under
\* way the snapshot is the one of the window as it is.
C21_UpdatesSerialized ==
    \A key \in UpdateKeys :
        /\ WindowOf(windows, key)
              = LastC(ValuesTo(key, Len(calls)), config.baseline_window_size)
        /\ key \in DOMAIN baselines => OfSomeFullWindow(baselines[key], key)
        /\ \A t \in StoreThreads :
              (threads[t].seen # None /\ threads[t].seen[1].key = key)
                  => OfSomeFullWindow(threads[t].seen[1].snapshot, key)
        /\ (~Locked(key) /\ Len(ValuesTo(key, Len(calls))) >= config.baseline_window_size)
              => get(baselines, key) = Some(from_data(windows[key]))

\* both callers have updated the latency key and one the cost key, all calls
\* are complete, the latency window has slid, and a reader holds a latency
\* snapshot that is no longer the current one
C21_Witness ==
    /\ \A t \in StoreThreads : threads[t].pc = "idle"
    /\ Len(ValuesTo(latency("svc-A", "gpt-4"), Len(calls))) > UpdateCap
    /\ ValuesTo(cost("svc-A", "gpt-4"), Len(calls)) # <<>>
    /\ \E t \in StoreThreads :
          /\ threads[t].seen # None
          /\ threads[t].seen[1].key = latency("svc-A", "gpt-4")
          /\ Some(threads[t].seen[1].snapshot) # get(baselines, latency("svc-A", "gpt-4"))

\* the cost key of the one service and model in play
CostKey == cost("svc-A", "gpt-4")

\* C22: in every reachable state of the CUSUM detector each key's
\* accumulators satisfy S+ >= 0 and S- <= 0.
C22_AccumulatorSigns ==
    \A key \in DOMAIN states :
        /\ RLe(Zero, states[key].cusum_pos)
        /\ RLe(states[key].cusum_neg, Zero)

\* an event below the baseline mean was folded in: S- is negative and S+,
\* which the fold would have taken below zero, is zero
C22_Witness ==
    /\ calls # <<>>
    /\ calls[1].result = None
    /\ CostKey \in DOMAIN states
    /\ RLt(FromInt(calls[1].event.cost_usd), baselines[CostKey].mean)
    /\ states[CostKey].cusum_pos = Zero
    /\ RLt(states[CostKey].cusum_neg, Zero)
    /\ states[CostKey].count >= 2

\* the accumulators of key after the deviation of cost x is folded into the
\* state st: S+ = max(0, S+ + x - mean - k), S- = min(0, S- + x - mean + k)
Folded(st, x, m, k) ==
    [pos |-> RMax(RSub(RAdd(st.cusum_pos, RSub(FromInt(x), m)), k), Zero),
     neg |-> RMin(RAdd(RAdd(st.cusum_neg, RSub(FromInt(x), m)), k), Zero)]

\* C23: a CUSUM detect call on a key with a valid baseline emits an anomaly
\* exactly when, after the event's deviation is folded in, S+ > h or
\* |S-| > h; when it emits the key's state is (0, 0, 0) on return, and when
\* it does not the folded accumulators are kept.
C23_EmitsIffOverThreshold ==
    [][(calls' # <<>> /\ (IF calls = <<>> THEN TRUE ELSE calls'[1].n > calls[1].n)
        /\ has_valid_baseline(baselines, CostKey)) =>
         LET c == calls'[1]
             st == IF CostKey \in DOMAIN states THEN states[CostKey] ELSE new_cusum_state
             f == Folded(st, c.event.cost_usd, baselines[CostKey].mean,
                         config.cusum_config.slack)
             h == config.cusum_config.threshold
             over == RLt(h, f.pos) \/ RLt(h, RAbs(f.neg))
         IN  /\ (c.result # None) <=> over
             /\ over => states'[CostKey] = [cusum_pos |-> Zero, cusum_neg |-> Zero, count |-> 0]
             /\ ~over => states'[CostKey] = [cusum_pos |-> f.pos, cusum_neg |-> f.neg,
                                             count |-> st.count + 1]]_vars

\* the fourth event of a stream was the first to take S+ over the threshold,
\* and the accumulators are back at zero
C23_Witness ==
    /\ calls # <<>>
    /\ calls[1].n = 4
    /\ calls[1].emitted = 1
    /\ calls[1].result # None
    /\ calls[1].result[1].anomaly_type = "CostAnomaly"
    /\ states[CostKey] = new_cusum_state

\* C24: with capacity 20, threshold 5.0 and slack 0.5, after the cost
\* baseline is warmed with 20 events of cost 0.01, a stream of events of
\* cost 0.02 draws a CostAnomaly from the CUSUM detector within 30 events.
C24_DriftEmitsWithin30 ==
    (config = DriftConfig /\ calls # <<>> /\ calls[1].n >= DriftStream) =>
        calls[1].emitted >= 1

\* the place of a severity in the order Low < Medium < High < Critical
SeverityRank(severity) ==
    CASE severity = "Low" -> 0
      [] severity = "Medium" -> 1
      [] severity = "High" -> 2
      [] severity = "Critical" -> 3

\* |z| >= t for a whole number t
AbsAtLeast(z, t) == Abs(z.num) >= t * z.den

\* |z1| < |z2|
AbsLess(z1, z2) == Abs(z1.num) * z2.den < Abs(z2.num) * z1.den

\* C25: the Z-score severity is Critical for |z| >= 6, High for
\* 4 <= |z| < 6, Medium for 3 <= |z| < 4 and Low otherwise, hence monotone
\* in |z|.
C25_SeverityLadder ==
    /\ \A i \in DOMAIN calls :
          calls[i].severity =
              IF AbsAtLeast(calls[i].z, 6) THEN "Critical"
              ELSE IF AbsAtLeast(calls[i].z, 4) THEN "High"
              ELSE IF AbsAtLeast(calls[i].z, 3) THEN "Medium"
              ELSE "Low"
    /\ \A i, j \in DOMAIN calls :
          AbsLess(calls[i].z, calls[j].z)
              => SeverityRank(calls[i].severity) <= SeverityRank(calls[j].severity)

\* a negative z-score between the Medium and the High rung, then one just
\* short of the Critical rung
C25_Witness ==
    /\ Len(calls) = 2
    /\ calls[1].z = Rat(0 - 15, 4)
    /\ calls[1].severity = "Medium"
    /\ calls[2].z = Rat(23, 4)
    /\ calls[2].severity = "High"

\* C26: reset restores the state the engine had when it was built (no
\* windows, no snapshots, no CUSUM accumulators, counters at zero), and the
\* same events fed again after it draw, event by event, the verdicts of the
\* first run from the same detectors.
C26_ReplayAfterReset ==
    previous # None =>
        /\ calls = <<>> =>
              /\ windows = EmptyStore
              /\ baselines = EmptyStore
              /\ states = EmptyStore
              /\ stats = NewEngineStats
        /\ \A i \in DOMAIN calls :
              /\ calls[i].event = previous[1][i].event
              /\ calls[i].result = previous[1][i].result
              /\ calls[i].invoked = previous[1][i].invoked
        /\ stats.events_processed = Len(calls)

\* six events were replayed, one of them was flagged by the CUSUM detector
\* in both runs, and the engine is past the point where it was reset
C26_Witness ==
    /\ previous # None
    /\ Len(calls) = 6
    /\ Len(previous[1]) = 6
    /\ \E i \in DOMAIN calls :
          calls[i].result # None /\ calls[i].result[1].detection_method = "Cusum"
    /\ windows # EmptyStore

---------------------------------------------------------------------------
(* The engine and its failing detectors *)

\* the detectors of ds that do not fail, in their order
Remaining(ds, failing) == SelectSeq(ds, LAMBDA d : d \notin failing)

\* C27: when some detectors' detect returns an error for an event, the
\* detect or process call still consults the detectors in order up to the
\* first anomaly, returns what the detectors that did not fail would have
\* returned by themselves (their first anomaly, or None), and counts the
\* event as processed.
C27_ErrorDoesNotAbort ==
    [][(calls' # calls /\ calls'[1].op \in {"detect", "process"})
        => LET c == calls'[1]
           IN  /\ c.result = consult(Remaining(detectors, c.failing), config, baselines,
                                     states, c.event, <<>>, {}).result
               /\ c.invoked = SubSeq(detectors, 1, Len(c.invoked))
               /\ c.result = None => c.invoked = detectors
               /\ stats'.events_processed = stats.events_processed + 1]_vars

\* a call whose first detector failed and whose second reported an anomaly,
\* and the event was counted
C27_Witness ==
    /\ calls # <<>>
    /\ calls[1].op \in {"detect", "process"}
    /\ calls[1].failing = {"zscore"}
    /\ calls[1].invoked = <<"zscore", "iqr">>
    /\ calls[1].result # None
    /\ stats.events_processed = calls[1].detections

\* C28: at every moment events_processed is the number of detect and
\* process calls made since construction or the last reset,
\* anomalies_detected the number of those that returned an anomaly, the
\* latter never exceeds the former, and an update call changes neither.
C28_CountersMatchCalls ==
    /\ [](/\ stats.events_processed = Detections
          /\ stats.anomalies_detected = Returned
          /\ stats.anomalies_detected <= stats.events_processed)
    /\ [][(calls' # calls /\ calls'[1].op = "update") => stats' = stats]_vars

\* an update call made after several detect and process calls, some of which
\* returned an anomaly and some of which did not
C28_Witness ==
    /\ calls # <<>>
    /\ calls[1].op = "update"
    /\ stats.anomalies_detected >= 1
    /\ stats.events_processed > stats.anomalies_detected
    /\ stats.events_processed < calls[1].n - 1

---------------------------------------------------------------------------
(* The pipeline driver *)

\* the positions of the calls of a collaborator in a trace
StepsOf(tr, call) == {i \in DOMAIN tr : tr[i].call = call}

\* C29: for every event that passes validation the driver calls
\* engine.process exactly once, after write_telemetry and whether that
\* write succeeded or failed (the engine counts one more event); for an
\* event that fails validation it calls neither.
C29_WriteFailureDoesNotBlockDetection ==
    [][IF trace'[1].ok
       THEN /\ StepsOf(trace', "write_telemetry") = {2}
            /\ StepsOf(trace', "process") = {3}
            /\ stats'.events_processed = stats.events_processed + 1
       ELSE /\ trace' = <<Step("validate", FALSE)>>
            /\ stats' = stats]_vars

\* an event whose telemetry write failed and which the engine processed and
\* flagged
C29_Witness ==
    /\ Len(trace) > 3
    /\ trace[2] = Step("write_telemetry", FALSE)
    /\ trace[3] = Step("process", TRUE)
    /\ stats.anomalies_detected >= 1

\* C30: the driver calls alerter.send for an anomaly exactly when
\* should_send returned true for it; every anomaly the engine returns is
\* written to storage and then shown to the deduplicator, once each and in
\* that order, whatever the outcome of the write and whether or not the
\* alert is suppressed; without an anomaly none of the three is called.
C30_SendIffShouldSend ==
    [][/\ StepsOf(trace', "send") # {}
             <=> \E i \in StepsOf(trace', "should_send") : trace'[i].ok
       /\ StepsOf(trace', "send") \subseteq {6}
       /\ IF stats'.anomalies_detected # stats.anomalies_detected
          THEN /\ StepsOf(trace', "write_anomaly") = {4}
               /\ StepsOf(trace', "should_send") = {5}
               /\ issued' = issued + 1
          ELSE /\ StepsOf(trace', "write_anomaly") = {}
               /\ StepsOf(trace', "should_send") = {}
               /\ UNCHANGED <<issued, entries>>]_vars

\* an anomaly whose write to storage failed and whose alert was suppressed:
\* it reached the deduplicator and was not sent
C30_Witness ==
    /\ Len(trace) = 5
    /\ trace[4] = Step("write_anomaly", FALSE)
    /\ trace[5] = Step("should_send", FALSE)
    /\ issued >= 2

---------------------------------------------------------------------------
(* The engine's windows and the detectors' own statistics *)

\* the windows an event of the one service and model feeds
MetricKeys ==
    { latency("svc-A", "gpt-4"), tokens("svc-A", "gpt-4"), cost("svc-A", "gpt-4") }

\* C34: on an engine with the default detectors and continuous learning,
\* after n process calls each of the three metric windows holds
\* min(n, capacity) values, one per event.
C34_OnePushPerEvent ==
    (/\ built = "Ok"
     /\ detectors = <<"zscore", "iqr", "cusum">>
     /\ config.continuous_learning
     /\ panicked = {})
    => \A key \in MetricKeys :
         Len(WindowOf(windows, key)) = Min(Len(calls), config.baseline_window_size)

\* C35: a detect or process call adds one to the reported events_processed
\* of every detector it invoked, and one to the reported anomalies_detected
\* of the detector that returned the anomaly.
C35_DetectorStatsCount ==
    [][(calls' # calls /\ calls'[1].op \in {"detect", "process"})
        => LET c == calls'[1]
               before == engine_stats(detectors, stats, detector_stats).detector_stats
               after == engine_stats(detectors', stats', detector_stats').detector_stats
               flagged(d) == c.result # None /\ d = c.invoked[Len(c.invoked)]
           IN  \A i \in DOMAIN c.invoked :
                 /\ after[c.invoked[i]].events_processed
                      = before[c.invoked[i]].events_processed + 1
                 /\ after[c.invoked[i]].anomalies_detected
                      = before[c.invoked[i]].anomalies_detected
                        + (IF flagged(c.invoked[i]) THEN 1 ELSE 0)]_vars

\* the trace of an event whose alert was handed to the transport and failed
FailedSend(tr) == Len(tr) = 6 /\ tr[6] = Step("send", FALSE)

\* the trace of an event whose alert was suppressed
Suppressed(tr) == Len(tr) = 5 /\ tr[5] = Step("should_send", FALSE)

\* C36: with deduplication on and all anomalies within one window, every
\* anomaly is on record in the entry of its signature, also when its publish
\* failed; the first anomaly of a signature is handed to the transport and
\* every later one is suppressed and not published, whether or not the
\* first publish succeeded.
C36_FailedPublishKeepsEntry ==
    enabled =>
      \A i \in DOMAIN previous :
        \E key \in DOMAIN entries :
          /\ \E j \in DOMAIN entries[key].alert_ids : entries[key].alert_ids[j] = i
          /\ IF entries[key].alert_ids[1] = i
             THEN Len(previous[i]) = 6 /\ previous[i][5] = Step("should_send", TRUE)
             ELSE Suppressed(previous[i])

\* a signature was detected twice; the only publish attempted for it failed
\* and the second anomaly was suppressed
C36_Witness ==
    /\ enabled
    /\ Len(previous) = 2
    /\ FailedSend(previous[1])
    /\ Suppressed(previous[2])
    /\ \E key \in DOMAIN entries : entries[key].alert_ids = <<1, 2>>

---------------------------------------------------------------------------
(* The alert senders *)

\* a response after which the webhook sender may try again
Retryable(response) == response = TransportError \/ is_retryable_status(response)

\* a response that is neither a success nor retryable
Final(response) == response # TransportError /\ ~is_success(response) /\ ~Retryable(response)

\* what holds of send_with_retry whatever the number of attempts it is given
WebhookOutcome(limit) ==
    LET n == Len(retry.responses)
    IN  /\ retry.attempt = n
        /\ \A i \in 1..n :
             /\ is_success(retry.responses[i]) => i = n /\ retry.result = "Ok"
             /\ Final(retry.responses[i]) => i = n /\ retry.result = "Err"
             /\ (Retryable(retry.responses[i]) /\ i = n /\ retry.pc = "done")
                  => retry.result = "Err" /\ n = limit
             /\ (Retryable(retry.responses[i]) /\ ~(i = n /\ retry.pc = "done"))
                  => i < limit
        /\ retry.result = "Ok" => n >= 1 /\ is_success(retry.responses[n])
        /\ retry.result = "Err" => n >= 1 /\ ~is_success(retry.responses[n])
        /\ retry.result = "none" <=> retry.pc # "done"

\* C33 as stated: the sender returns Ok at the first success status; after a
\* retryable status or a transport error it tries again until max_retries
\* attempts have been made in total and then returns an error; after any
\* other status it returns an error at once.
C33_RetriesUpToMaxRetries == WebhookOutcome(retry.config.max_retries)

\* C33 amended: as above, the total being max(1, max_retries) attempts: with
\* max_retries = 0 the sender still makes one attempt.
C33_RetriesUpToAtLeastOne ==
    WebhookOutcome(IF retry.config.max_retries >= 1 THEN retry.config.max_retries ELSE 1)

\* three attempts, all retryable (a status and a transport error among
\* them), after which the sender gave up
C33_Witness ==
    /\ retry.config.max_retries = 3
    /\ retry.responses = <<500, TransportError, 503>>
    /\ retry.result = "Err"
    /\ Len(retry.slept) = 2

\* C37: the publisher makes at least one and at most max(1, max_attempts)
\* attempts, returns Ok exactly at its first successful attempt, returns an
\* error only after max(1, max_attempts) attempts that all failed, and
\* always returns.
C37_PublishTerminates ==
    /\ [](LET n == Len(retry.responses)
              limit == IF retry.config.max_attempts >= 1 THEN retry.config.max_attempts ELSE 1
          IN  /\ retry.attempt = n
              /\ n <= limit
              /\ \A i \in 1..n : retry.responses[i] => i = n /\ retry.result = "Ok"
              /\ retry.result = "Ok" => n >= 1 /\ retry.responses[n]
              /\ retry.result = "Err" => n = limit /\ \A i \in 1..n : ~retry.responses[i]
              /\ retry.pc = "done" <=> retry.result # "none")
    /\ <>(retry.pc = "done")

\* the publisher gave up after three failed attempts
C37_Witness ==
    /\ retry.config.max_attempts = 3
    /\ retry.responses = <<FALSE, FALSE, FALSE>>
    /\ retry.result = "Err"

\* C38: every delay slept is at most max_delay_ms, and with a multiplier of
\* at least 1 no delay is shorter than the one before it.
C38_DelaysBoundedAndMonotone ==
    /\ \A i \in DOMAIN retry.slept : retry.slept[i] <= retry.config.max_delay_ms
    /\ RLe(FromInt(1), retry.config.backoff_multiplier)
         => \A i \in DOMAIN retry.slept :
              i > 1 => retry.slept[i - 1] <= retry.slept[i]


---------------------------------------------------------------------------
(* C39: the Kafka ingester is a two-state machine (stopped, running):        *)
(* next_batch and health_check return an error while stopped and leave it    *)
(* stopped; start on a running ingester returns an already-exists error and  *)
(* leaves it running; stop on a stopped ingester returns Ok and leaves it    *)
(* stopped; the flag changes only by a successful start or by stop; and a    *)
(* batch returned by next_batch never holds more than batch_size events.     *)
C39_TwoStateIngester ==
    [][LET call == ingester'.last
       IN  /\ ingester'.running \in BOOLEAN
           /\ call.was_running = ingester.running
           /\ (call.op \in {"next_batch", "health_check"} /\ ~call.was_running)
                => (call.ret = "Err(internal)" /\ ~ingester'.running)
           /\ (call.op = "start" /\ call.was_running)
                => (call.ret = "Err(already_exists)" /\ ingester'.running)
           /\ (call.op = "stop" /\ ~call.was_running)
                => (call.ret = "Ok" /\ ~ingester'.running)
           /\ (ingester'.running # ingester.running)
                => (call.ret = "Ok" /\ call.op = IF ingester'.running THEN "start" ELSE "stop")
           /\ (call.op = "next_batch" /\ call.ret = "Ok")
                => call.len <= ingester.batch_size]_vars

\* a running ingester was offered more parsable messages than batch_size and
\* returned a full batch
C39_Witness ==
    /\ ingester.last.op = "next_batch"
    /\ ingester.last.ret = "Ok"
    /\ ingester.batch_size = MaxBatch
    /\ ingester.last.len = ingester.batch_size
    /\ Len(SelectSeq(ingester.last.received, LAMBDA m : m = "event")) > ingester.batch_size


---------------------------------------------------------------------------
(* C40: IngestionPipeline::stop eventually returns with every worker task    *)
(* finished, for every pipeline that was started, also when clones of the    *)
(* sender obtained through sender() are still held by producers.             *)
AllWorkersDone == \A w \in DOMAIN ingestion.tasks : ingestion.tasks[w] = "done"

C40_StopReturns ==
    (ingestion.stop = "joining" /\ ~ingestion.rx)
        ~> (ingestion.stop = "returned" /\ AllWorkersDone)


\* what does hold: stop returns, with every worker finished, once no producer
\* holds a clone of the sender
StopReturnsOnceClonesDropped ==
    (ingestion.stop = "joining" /\ ~ingestion.rx /\ ingestion.clones = 0)
        ~> (ingestion.stop = "returned" /\ AllWorkersDone)


---------------------------------------------------------------------------
(* C31: the pipeline driver never halts on a transient error: it never       *)
(* returns from its loop; after a source pull error it backs off and pulls   *)
(* again; and a validation, storage, detection or publish failure for one    *)
(* event never keeps the remaining events of the batch from going through    *)
(* the loop body nor the driver from pulling the next batch (until the       *)
(* shutdown drops the driver).                                               *)
C31_NeverHaltsOnError ==
    /\ [](driver.pc # "exited")
    /\ [](driver.pc = "next_batch" => driver.handled = driver.size)
    /\ (driver.pc = "sleep") ~> (driver.pc \in {"next_batch", "dropped"})
    /\ (driver.batch # <<>>)
         ~> ((driver.pc = "next_batch" /\ driver.handled = driver.size) \/ driver.pc = "dropped")
    /\ []<>(driver.pc \in {"next_batch", "dropped"})

\* a full batch went through the loop body although a storage write, a
\* detection and a publish failed on the way, and the driver pulls again
C31_Witness ==
    /\ driver.pc = "next_batch"
    /\ driver.size = MaxBatch
    /\ driver.handled = driver.size
    /\ {"storage", "detection", "publish"} \subseteq driver.failures

---------------------------------------------------------------------------
(* C32: on process-level shutdown the pipeline driver stops only at a batch  *)
(* boundary: when the shutdown drops it, it is pulling or backing off and no *)
(* event of a batch is in hand or still to come.                             *)
C32_ShutdownAtBatchBoundary ==
    driver.pc = "dropped"
        => (driver.batch = <<>> /\ driver.dropped_at \in {"next_batch", "sleep"})

\* what does hold: whenever should_send has recorded the anomaly in hand, a
\* publish of it has been attempted, the shutdown included
RecordedOnlyWithAttempt == driver.recorded => driver.attempt >= 1

====
